---- MODULE Spec2Model ----
(***************************************************************************)
(* A model of the single-threaded executor / reactor core of               *)
(* rust-async-bench: the task arena and ready list (executor.rs,           *)
(* future.rs), the wake handles (waker.rs), the reactor and its            *)
(* registrations (future.rs), the fake I/O backend (fakeio.rs) and the     *)
(* echo workloads (run.rs).                                                *)
(***************************************************************************)
EXTENDS Integers, Sequences, FiniteSets, TLC

(***************************************************************************)
(* Bounds of the model                                                     *)
(***************************************************************************)
TasksMax == 2
RegsMax == 2
MaxSpawns == 3
MaxResumes == 3
MaxPolls == 2
MaxAccepts == 2
MaxHeld == 1
MaxRegisters == 2
MaxEchoPolls == 100

(***************************************************************************)
(* Program constants                                                       *)
(***************************************************************************)
CONNS_MAX == 32
SMALL_BUFSIZE == 128
READABLE == 1
WRITABLE == 2
PollCapacity == 128

None == -1

Variants == {"arg", "bx", "boxrc", "future"}

VARIABLES variant, pc, cur, tasks, reactor, poll, stats, held, g, man,
          spawner

vars == <<variant, pc, cur, tasks, reactor, poll, stats, held, g, man,
          spawner>>

(***************************************************************************)
(* slab::Slab as the sources use it: keys are indices, a removed key is    *)
(* the first to be handed out again, other entries never move.             *)
(***************************************************************************)
Occupied(v) == [occ |-> TRUE, val |-> v]

Vacant(n) == [occ |-> FALSE, nxt |-> n]

SlabWithCapacity(c) == [entries |-> <<>>, len |-> 0, next |-> 0, cap |-> c]

SlabContains(s, k) == k \in 0..(Len(s.entries) - 1) /\ s.entries[k + 1].occ

SlabGet(s, k) == s.entries[k + 1].val

SlabSet(s, k, v) == [s EXCEPT !.entries[k + 1] = Occupied(v)]

SlabInsert(s, v) ==
  IF s.next = Len(s.entries)
  THEN [s EXCEPT !.entries = Append(@, Occupied(v)), !.len = @ + 1,
                 !.next = s.next + 1]
  ELSE [s EXCEPT !.entries[s.next + 1] = Occupied(v), !.len = @ + 1,
                 !.next = s.entries[s.next + 1].nxt]

\* SlabRemove that fills the hole with the last entry (as Vec::swap_remove
\* does): the entry that was last gets the removed key
SlabRemove_Swap(s, k) ==
  IF k + 1 < Len(s.entries) /\ s.entries[Len(s.entries)].occ
  THEN [s EXCEPT !.entries[k + 1] = s.entries[Len(s.entries)],
                 !.entries[Len(s.entries)] = Vacant(s.next),
                 !.len = @ - 1, !.next = Len(s.entries) - 1]
  ELSE [s EXCEPT !.entries[k + 1] = Vacant(s.next), !.len = @ - 1,
                 !.next = k]

SlabRemove(s, k) ==
  [s EXCEPT !.entries[k + 1] = Vacant(s.next), !.len = @ - 1, !.next = k]

SlabKeys(s) == {k \in 0..(Len(s.entries) - 1) : s.entries[k + 1].occ}

(***************************************************************************)
(* list::List, the intrusive FIFO over slab keys.                          *)
(***************************************************************************)
ListPushBack(l, k) == Append(l, k)

ListRemove(l, k) == SelectSeq(l, LAMBDA x : x # k)

ListHead(l) == IF l = <<>> THEN None ELSE Head(l)

Count(l, k) == Cardinality({i \in 1..Len(l) : l[i] = k})

\* F applied to the value of v, v being evaluated once
Bind(v, F(_)) == CHOOSE r \in {F(x) : x \in {v}} : TRUE

(***************************************************************************)
(* The world the operations act on.  fault names the panic that ended the  *)
(* program, ret carries the result of the last call, log records which     *)
(* registration keys were released (released: and not handed out again     *)
(* since; ever: at any time).                                              *)
(***************************************************************************)
World == [tasks |-> tasks, reactor |-> reactor, poll |-> poll,
          stats |-> stats, fault |-> "none", ret |-> [ok |-> TRUE],
          log |-> [released |-> g.released, ever |-> g.ever]]

Fail(w0, why) ==
  Bind(w0, LAMBDA w :
    IF w.fault = "none" THEN [w EXCEPT !.fault = why] ELSE w)

\* the reference count a task's wake handle has when no duplicate is
\* outstanding: EmbedWaker::new sets 1, an Rc/Arc waker has one strong
\* reference, Executor::create_task sets waker_refs to 0
Baseline == IF variant = "future" THEN 0 ELSE 1

Task(w0, id) ==
  Bind(w0, LAMBDA w :
    SlabGet(w.tasks.nodes, id))

SetTask(w0, id, t) ==
  Bind(w0, LAMBDA w :
    [w EXCEPT !.tasks.nodes = SlabSet(@, id, t)])

\* TasksAdd with the capacity test forgotten: the arena grows
TasksAdd_NoCheck(w0, f) ==
  Bind(w0, LAMBDA w :
    LET key == w.tasks.nodes.next
        task == [awake |-> TRUE, refs |-> Baseline, fut |-> f]
    IN [w EXCEPT !.tasks.nodes = SlabInsert(@, task),
                 !.tasks.next = ListPushBack(@, key),
                 !.ret = [ok |-> TRUE, key |-> key]])

\* TasksAdd that links the new task in at the head of the ready list
TasksAdd_Front(w0, f) ==
  Bind(w0, LAMBDA w :
    IF w.tasks.nodes.len = w.tasks.nodes.cap
    THEN [w EXCEPT !.ret = [ok |-> FALSE]]
    ELSE LET key == w.tasks.nodes.next
             task == [awake |-> TRUE, refs |-> Baseline, fut |-> f]
         IN [w EXCEPT !.tasks.nodes = SlabInsert(@, task),
                      !.tasks.next = <<key>> \o @,
                      !.ret = [ok |-> TRUE, key |-> key]])

\* TasksAdd that resumes the new continuation at once: one that reports
\* Done on its first resume has completed before the call returns
TasksAdd_Run(w0, f) ==
  Bind(w0, LAMBDA w :
    IF w.tasks.nodes.len = w.tasks.nodes.cap
    THEN [w EXCEPT !.ret = [ok |-> FALSE]]
    ELSE LET key == w.tasks.nodes.next
             task == [awake |-> TRUE, refs |-> Baseline, fut |-> f]
         IN IF f.kind = "imm"
            THEN [w EXCEPT !.ret = [ok |-> TRUE, key |-> key]]
            ELSE [w EXCEPT !.tasks.nodes = SlabInsert(@, task),
                           !.tasks.next = ListPushBack(@, key),
                           !.ret = [ok |-> TRUE, key |-> key]])

(***************************************************************************)
(* Tasks::add / Executor::create_task                                      *)
(***************************************************************************)
TasksAdd(w0, f) ==
  Bind(w0, LAMBDA w :
    IF w.tasks.nodes.len = w.tasks.nodes.cap
    THEN [w EXCEPT !.ret = [ok |-> FALSE]]
    ELSE LET key == w.tasks.nodes.next
             task == [awake |-> TRUE, refs |-> Baseline, fut |-> f]
         IN [w EXCEPT !.tasks.nodes = SlabInsert(@, task),
                      !.tasks.next = ListPushBack(@, key),
                      !.ret = [ok |-> TRUE, key |-> key]])

\* TasksWake with the test of the awake flag forgotten: the task is moved
\* to the back of the ready list by every wake
TasksWake_NoGuard(w0, task_id) ==
  Bind(w0, LAMBDA w :
    IF ~SlabContains(w.tasks.nodes, task_id)
    THEN Fail(w, "invalid key")
    ELSE LET t == [Task(w, task_id) EXCEPT !.awake = TRUE]
         IN [SetTask(w, task_id, t) EXCEPT
               !.tasks.next = ListPushBack(ListRemove(@, task_id), task_id)])

\* TasksWake that links the task in at every wake, awake or not
TasksWake_Push(w0, task_id) ==
  Bind(w0, LAMBDA w :
    IF ~SlabContains(w.tasks.nodes, task_id)
    THEN Fail(w, "invalid key")
    ELSE LET t == [Task(w, task_id) EXCEPT !.awake = TRUE]
         IN [SetTask(w, task_id, t) EXCEPT
               !.tasks.next = ListPushBack(@, task_id)])

\* TasksWake that sets the awake flag and does not link the task in
TasksWake_NoPush(w0, task_id) ==
  Bind(w0, LAMBDA w :
    IF ~SlabContains(w.tasks.nodes, task_id)
    THEN Fail(w, "invalid key")
    ELSE IF ~Task(w, task_id).awake
    THEN SetTask(w, task_id, [Task(w, task_id) EXCEPT !.awake = TRUE])
    ELSE w)

\* TasksWake that resumes the woken continuation on the spot, which runs to
\* its end
TasksWake_Run(w0, task_id) ==
  Bind(w0, LAMBDA w :
    IF ~SlabContains(w.tasks.nodes, task_id)
    THEN Fail(w, "invalid key")
    ELSE IF ~Task(w, task_id).awake
    THEN [w EXCEPT !.tasks.nodes = SlabRemove(@, task_id)]
    ELSE w)

(***************************************************************************)
(* Tasks::wake / Executor::wake                                            *)
(***************************************************************************)
TasksWake(w0, task_id) ==
  Bind(w0, LAMBDA w :
    IF ~SlabContains(w.tasks.nodes, task_id)
    THEN Fail(w, "invalid key")
    ELSE IF ~Task(w, task_id).awake
    THEN LET t == [Task(w, task_id) EXCEPT !.awake = TRUE]
         IN [SetTask(w, task_id, t) EXCEPT
               !.tasks.next = ListPushBack(ListRemove(@, task_id), task_id)]
    ELSE w)

(***************************************************************************)
(* Wake handle reference counting: EmbedWaker::clone / drop,               *)
(* SharedWaker::clone / drop, Rc / Arc strong counts.                      *)
(***************************************************************************)
WakerClone(w0, task_id) ==
  Bind(w0, LAMBDA w :
    IF ~SlabContains(w.tasks.nodes, task_id)
    THEN Fail(w, "invalid key")
    ELSE SetTask(w, task_id, [Task(w, task_id) EXCEPT !.refs = @ + 1]))

WakerDrop(w0, task_id) ==
  Bind(w0, LAMBDA w :
    IF ~SlabContains(w.tasks.nodes, task_id)
    THEN Fail(w, "invalid key")
    ELSE IF Task(w, task_id).refs <= Baseline
    THEN Fail(w, "refs")
    ELSE SetTask(w, task_id, [Task(w, task_id) EXCEPT !.refs = @ - 1]))

\* WakerWake that does not release the handle it consumes
WakerWake_NoDrop(w0, task_id) ==
  Bind(w0, LAMBDA w :
    TasksWake(w, task_id))

\* wake by value: wake_by_ref, then drop
WakerWake(w0, task_id) ==
  Bind(w0, LAMBDA w :
    WakerDrop(TasksWake(w, task_id), task_id))

(***************************************************************************)
(* The Rc / Arc wake handles of the boxrc executor: TaskWaker holds a weak *)
(* reference to the tasks (alive: it still upgrades), and the checked      *)
(* handle tests the calling thread first (here: it is the thread that      *)
(* created the tasks).                                                     *)
(***************************************************************************)
\* check_thread that lets every thread pass
check_thread_None(w0, here) ==
  Bind(w0, LAMBDA w : w)

check_thread(w0, here) ==
  Bind(w0, LAMBDA w :
    IF here THEN w ELSE Fail(w, "thread"))

\* TaskWakerWake that unwraps the upgrade
TaskWakerWake_Unwrap(w0, alive, task_id) ==
  Bind(w0, LAMBDA w :
    IF alive THEN TasksWake(w, task_id) ELSE Fail(w, "upgrade"))

\* TaskWaker::wake_by_ref
TaskWakerWake(w0, alive, task_id) ==
  Bind(w0, LAMBDA w :
    IF alive THEN TasksWake(w, task_id) ELSE w)

\* the strong count of the handle of a slot is kept with the task while
\* the tasks are alive
RcClone(w0, alive, task_id) ==
  Bind(w0, LAMBDA w :
    IF alive THEN WakerClone(w, task_id) ELSE w)

RcRelease(w0, alive, task_id) ==
  Bind(w0, LAMBDA w :
    IF alive THEN WakerDrop(w, task_id) ELSE w)

\* the vtable of checked_raw_waker: clone_waker, wake, wake_by_ref,
\* drop_waker.  A panic of check_thread leaves the function before it
\* does anything else; the Rc that wake and drop_waker took over is dropped
\* as the panic unwinds (UnwindForeign).
HandleOp(w0, op, alive, task_id, here) ==
  Bind(w0, LAMBDA w :
    LET w1 == check_thread(w, here)
    IN IF w1.fault # "none" THEN w1
       ELSE IF op = "clone" THEN RcClone(w1, alive, task_id)
       ELSE IF op = "wake_by_ref" THEN TaskWakerWake(w1, alive, task_id)
       ELSE IF op = "wake"
       THEN RcRelease(TaskWakerWake(w1, alive, task_id), alive, task_id)
       ELSE RcRelease(w1, alive, task_id))

HandleOps == {"clone", "wake", "wake_by_ref", "drop"}

Consuming == {"wake", "drop"}

(***************************************************************************)
(* fakeio::Poll, the readiness source.                                     *)
(***************************************************************************)
Inc(w0, field) ==
  Bind(w0, LAMBDA w :
    [w EXCEPT !.stats[field] = @ + 1])

PollRegister(w0, key, interest) ==
  Bind(w0, LAMBDA w :
    LET w1 == Inc(w, "register")
        index == w1.poll.items.next
    IN [w1 EXCEPT !.poll.items = SlabInsert(@, <<interest, key>>),
                  !.ret = [ok |-> TRUE, index |-> index]])

\* PollUnregister that counts the call and leaves the item in place
PollUnregister_Keep(w0, index) ==
  Bind(w0, LAMBDA w :
    Inc(w, "unregister"))

PollUnregister(w0, index) ==
  Bind(w0, LAMBDA w :
    LET w1 == Inc(w, "unregister")
    IN IF index # None
       THEN [w1 EXCEPT !.poll.items = SlabRemove(@, index)]
       ELSE w1)

RECURSIVE ItemEvents(_, _)
ItemEvents(items, i) ==
  IF i >= Len(items.entries) THEN <<>>
  ELSE IF items.entries[i + 1].occ
  THEN <<<<items.entries[i + 1].val[2], items.entries[i + 1].val[1]>>>>
         \o ItemEvents(items, i + 1)
  ELSE ItemEvents(items, i + 1)

\* PollPoll that adds the events to the list of the previous poll
PollPoll_Append(w) ==
  [Inc(w, "poll") EXCEPT
     !.reactor.events = @ \o ItemEvents(w.poll.items, 0)]

PollPoll(w) ==
  [Inc(w, "poll") EXCEPT !.reactor.events = ItemEvents(w.poll.items, 0)]

(***************************************************************************)
(* future::FakeReactor and RegistrationHandle.                             *)
(***************************************************************************)
Reg(w0, key) ==
  Bind(w0, LAMBDA w :
    SlabGet(w.reactor.registrations, key))

SetReg(w0, key, r) ==
  Bind(w0, LAMBDA w :
    [w EXCEPT !.reactor.registrations = SlabSet(@, key, r)])

\* ReactorRegister with the capacity test forgotten
ReactorRegister_NoCheck(w0, interest) ==
  Bind(w0, LAMBDA w :
    LET key == w.reactor.registrations.next
        w1 == [w EXCEPT !.reactor.registrations =
                 SlabInsert(@, [ready |-> FALSE, waker |-> None]),
                        !.log.released = @ \ {key}]
        w2 == PollRegister(w1, key, interest)
    IN [w2 EXCEPT !.ret = [ok |-> TRUE, key |-> key,
                           index |-> w2.ret.index]])

ReactorRegister(w0, interest) ==
  Bind(w0, LAMBDA w :
    IF w.reactor.registrations.len = w.reactor.registrations.cap
    THEN [w EXCEPT !.ret = [ok |-> FALSE]]
    ELSE LET key == w.reactor.registrations.next
             w1 == [w EXCEPT !.reactor.registrations =
                      SlabInsert(@, [ready |-> FALSE, waker |-> None]),
                             !.log.released = @ \ {key}]
             w2 == PollRegister(w1, key, interest)
         IN [w2 EXCEPT !.ret = [ok |-> TRUE, key |-> key,
                                index |-> w2.ret.index]])

ReactorUnregister(w0, index) ==
  Bind(w0, LAMBDA w :
    PollUnregister(w, index))

is_ready(w0, key) ==
  Bind(w0, LAMBDA w :
    Reg(w, key).ready)

\* set_ready that sets the flag and never clears it
set_ready_OnlySet(w0, key, ready) ==
  Bind(w0, LAMBDA w :
    SetReg(w, key, [Reg(w, key) EXCEPT !.ready = @ \/ ready]))

set_ready(w0, key, ready) ==
  Bind(w0, LAMBDA w :
    SetReg(w, key, [Reg(w, key) EXCEPT !.ready = ready]))

\* bind_waker that binds nothing
bind_waker_Forget(w0, key, task_id) ==
  Bind(w0, LAMBDA w : w)

\* bind_waker that keeps the handle it replaces alive (the old handle is
\* forgotten, not dropped)
bind_waker_Leak(w0, key, task_id) ==
  Bind(w0, LAMBDA w :
    LET w1 == WakerClone(w, task_id)
    IN SetReg(w1, key, [Reg(w1, key) EXCEPT !.waker = task_id]))

\* bind_waker(cx.waker().clone()): the clone is made first, the handle that
\* was bound before is dropped by the assignment
bind_waker(w0, key, task_id) ==
  Bind(w0, LAMBDA w :
    LET old == Reg(w, key).waker
        w1 == WakerClone(w, task_id)
        w2 == SetReg(w1, key, [Reg(w1, key) EXCEPT !.waker = task_id])
    IN IF old # None THEN WakerDrop(w2, old) ELSE w2)

\* unbind_waker that leaves the handle bound
unbind_waker_Keep(w0, key) ==
  Bind(w0, LAMBDA w : w)

unbind_waker(w0, key) ==
  Bind(w0, LAMBDA w :
    LET old == Reg(w, key).waker
        w1 == SetReg(w, key, [Reg(w, key) EXCEPT !.waker = None])
    IN IF old # None THEN WakerDrop(w1, old) ELSE w1)

\* Drop for RegistrationHandle: the registration goes, and with it the
\* handle that is still bound
DropRegistrationHandle(w0, key) ==
  Bind(w0, LAMBDA w :
    LET old == Reg(w, key).waker
        w1 == [w EXCEPT !.reactor.registrations = SlabRemove(@, key),
                        !.log.released = @ \cup {key},
                        !.log.ever = @ \cup {key}]
    IN IF old # None THEN WakerDrop(w1, old) ELSE w1)

\* DeliverEvents with the taken handle dropped instead of invoked
RECURSIVE DeliverEvents_NoWake(_, _)
DeliverEvents_NoWake(w0, evs) ==
  Bind(w0, LAMBDA w :
    IF evs = <<>> THEN w
    ELSE LET key == Head(evs)[1]
         IN IF SlabContains(w.reactor.registrations, key)
            THEN LET waker == Reg(w, key).waker
                     w1 == SetReg(w, key, [ready |-> TRUE, waker |-> None])
                 IN DeliverEvents_NoWake(IF waker # None
                                         THEN WakerDrop(w1, waker)
                                         ELSE w1, Tail(evs))
            ELSE DeliverEvents_NoWake(w, Tail(evs)))

\* DeliverEvents that invokes the bound handle by reference and leaves it
\* bound
RECURSIVE DeliverEvents_Keep(_, _)
DeliverEvents_Keep(w0, evs) ==
  Bind(w0, LAMBDA w :
    IF evs = <<>> THEN w
    ELSE LET key == Head(evs)[1]
         IN IF SlabContains(w.reactor.registrations, key)
            THEN LET waker == Reg(w, key).waker
                     w1 == SetReg(w, key, [Reg(w, key) EXCEPT !.ready = TRUE])
                 IN DeliverEvents_Keep(IF waker # None
                                       THEN TasksWake(w1, waker)
                                       ELSE w1, Tail(evs))
            ELSE DeliverEvents_Keep(w, Tail(evs)))

RECURSIVE DeliverEvents(_, _)
DeliverEvents(w0, evs) ==
  Bind(w0, LAMBDA w :
    IF evs = <<>> THEN w
    ELSE LET key == Head(evs)[1]
         IN IF SlabContains(w.reactor.registrations, key)
            THEN LET waker == Reg(w, key).waker
                     w1 == SetReg(w, key, [ready |-> TRUE, waker |-> None])
                 IN DeliverEvents(IF waker # None THEN WakerWake(w1, waker)
                                  ELSE w1, Tail(evs))
            ELSE DeliverEvents(w, Tail(evs)))

ReactorPoll(w) ==
  LET w1 == PollPoll(w)
  IN DeliverEvents(w1, w1.reactor.events)

(***************************************************************************)
(* fakeio::FakeListener / FakeStream and their async wrappers.  An I/O     *)
(* object is [key (registration), index (poll index), calls].              *)
(***************************************************************************)
NoIo == [key |-> None, index |-> None, calls |-> 0]

\* b"hello world\\n"
LINE == <<104, 101, 108, 108, 111, 32, 119, 111, 114, 108, 100, 10>>

NEWLINE == 10

Contains(buf, b) == \E i \in 1..Len(buf) : buf[i] = b

\* WouldBlock with the parity test inverted
WouldBlock_Even(calls) == calls % 2 = 0

WouldBlock(calls) == calls % 2 = 1

\* AsyncNew with set_ready(true) forgotten
AsyncNew_NotReady(w0, interest) ==
  Bind(w0, LAMBDA w :
    LET w1 == ReactorRegister(w, interest)
    IN IF ~w1.ret.ok THEN Fail(w1, "register unwrap")
       ELSE [w1 EXCEPT
               !.ret = [ok |-> TRUE,
                        io |-> [key |-> w1.ret.key, index |-> w1.ret.index,
                                calls |-> 0]]])

\* AsyncFakeListener::new / AsyncFakeStream::new: register(..).unwrap(),
\* then set_ready(true)
AsyncNew(w0, interest) ==
  Bind(w0, LAMBDA w :
    LET w1 == ReactorRegister(w, interest)
    IN IF ~w1.ret.ok THEN Fail(w1, "register unwrap")
       ELSE [set_ready(w1, w1.ret.key, TRUE) EXCEPT
               !.ret = [ok |-> TRUE,
                        io |-> [key |-> w1.ret.key, index |-> w1.ret.index,
                                calls |-> 0]]])

\* Drop for AsyncFakeListener / AsyncFakeStream, then the drop of its
\* fields (the RegistrationHandle)
AsyncDrop(w0, io) ==
  Bind(w0, LAMBDA w :
    DropRegistrationHandle(ReactorUnregister(w, io.index), io.key))

\* FakeListener::accept; ret = [wb, io (the listener afterwards)]
FakeAccept(w0, l) ==
  Bind(w0, LAMBDA w :
    LET l2 == [l EXCEPT !.calls = @ + 1]
    IN [Inc(w, "accept") EXCEPT
          !.ret = [ok |-> TRUE, wb |-> WouldBlock(l2.calls), io |-> l2]])

\* FakeStream::read into a buffer of space bytes; ret = [wb, io, data]
FakeRead(w0, st, space) ==
  Bind(w0, LAMBDA w :
    LET s2 == [st EXCEPT !.calls = @ + 1]
        w1 == Inc(w, "read")
    IN IF WouldBlock(s2.calls)
       THEN [w1 EXCEPT !.ret = [ok |-> TRUE, wb |-> TRUE, io |-> s2,
                                data |-> <<>>]]
       ELSE IF space < Len(LINE) THEN Fail(w1, "read assert")
       ELSE [w1 EXCEPT !.ret = [ok |-> TRUE, wb |-> FALSE, io |-> s2,
                                data |-> LINE]])

\* FakeStream::write of data; ret.data is what was accepted
FakeWrite(w0, st, data) ==
  Bind(w0, LAMBDA w :
    LET s2 == [st EXCEPT !.calls = @ + 1]
    IN [Inc(w, "write") EXCEPT
          !.ret = [ok |-> TRUE, wb |-> WouldBlock(s2.calls), io |-> s2,
                   data |-> IF WouldBlock(s2.calls) THEN <<>> ELSE data]])

\* AcceptPoll that attempts the accept whether the ready flag is set or not
AcceptPoll_Eager(w0, task_id, l) ==
  Bind(w0, LAMBDA w :
    LET w1 == bind_waker(w, l.key, task_id)
        w2 == FakeAccept(w1, l)
    IN IF w2.ret.wb
       THEN [set_ready(w2, l.key, FALSE) EXCEPT
               !.ret = [ok |-> TRUE, st |-> "pending", io |-> w2.ret.io,
                        stream |-> NoIo]]
       ELSE LET w3 == AsyncNew(w2, READABLE + WRITABLE)
            IN IF w3.fault # "none" THEN w3
               ELSE [w3 EXCEPT !.ret = [ok |-> TRUE, st |-> "ready",
                                        io |-> w2.ret.io,
                                        stream |-> w3.ret.io]])

\* AcceptFuture::poll on listener l for the task task_id;
\* ret = [st, io (the listener afterwards), stream (the accepted stream)]
AcceptPoll(w0, task_id, l) ==
  Bind(w0, LAMBDA w :
    LET w1 == bind_waker(w, l.key, task_id)
    IN IF ~is_ready(w1, l.key)
       THEN [w1 EXCEPT !.ret = [ok |-> TRUE, st |-> "pending", io |-> l,
                                stream |-> NoIo]]
       ELSE LET w2 == FakeAccept(w1, l)
            IN IF w2.ret.wb
               THEN [set_ready(w2, l.key, FALSE) EXCEPT
                       !.ret = [ok |-> TRUE, st |-> "pending", io |-> w2.ret.io,
                                stream |-> NoIo]]
               ELSE LET w3 == AsyncNew(w2, READABLE + WRITABLE)
                    IN IF w3.fault # "none" THEN w3
                       ELSE [w3 EXCEPT !.ret = [ok |-> TRUE, st |-> "ready",
                                                io |-> w2.ret.io,
                                                stream |-> w3.ret.io]])

(***************************************************************************)
(* Continuations.  "imm" reports Done on its first resume; "gen" is an     *)
(* arbitrary continuation: it may wake itself, keep or use duplicates of   *)
(* its wake handle, spawn, own a listener and await accept on it.          *)
(***************************************************************************)
Imm == [kind |-> "imm"]

Gen == [kind |-> "gen", l |-> NoIo, acc |-> FALSE]

FutOf(kind) == IF kind = "imm" THEN Imm ELSE Gen

\* dropping a continuation drops what it owns
DropFut(w0, f) ==
  Bind(w0, LAMBDA w :
    IF f.kind \in {"gen", "listen"} /\ f.l.key # None
    THEN AsyncDrop(IF f.acc THEN unbind_waker(w, f.l.key) ELSE w, f.l)
    ELSE IF f.kind = "conn"
    THEN AsyncDrop(IF f.pend THEN unbind_waker(w, f.s.key) ELSE w, f.s)
    ELSE w)

(***************************************************************************)
(* ArgSpawner / future::Spawner: data is None until set_spawner stores the  *)
(* address of the executor in it, and None again once that executor is     *)
(* dropped.                                                                *)
(***************************************************************************)
\* the address of the executor, as SpawnerData.ctx holds it
Ctx == 0

SpawnerNew == [data |-> None]

\* ArgSpawner::spawn / Spawner::spawn
SpawnerSpawn(w0, sp, f) ==
  Bind(w0, LAMBDA w :
    IF sp.data # None THEN TasksAdd(w, f)
    ELSE [w EXCEPT !.ret = [ok |-> FALSE]])

\* Drop for the executor that leaves the data of its spawner in place
DetachSpawner_Keep(sp) == sp

\* Drop for ArgExecutor / Executor
DetachSpawner(sp) == [sp EXCEPT !.data = None]

(***************************************************************************)
(* Observation variables (g): counters and the reference FIFO order.       *)
(***************************************************************************)
NoDrop == [task |-> None, key |-> None, bound |-> FALSE]

NoForeign == [op |-> "none", task |-> None, fault |-> "none", same |-> TRUE]

GInit == [spawned |-> 0, nonImm |-> 0, lastSpawn |-> "none",
          completions |-> 0, resumes |-> 0, fault |-> "none",
          order |-> <<>>, expect |-> None,
          credit |-> {}, owed |-> {}, served |-> FALSE, uncaused |-> FALSE,
          released |-> {}, ever |-> {},
          lastPoll |-> [reported |-> {}, released |-> {}, ever |-> {}],
          fresh |-> {}, made |-> {}, during |-> {},
          early |-> FALSE, reentrant |-> FALSE, late |-> FALSE,
          dropped |-> NoDrop, rebound |-> FALSE, selfDone |-> FALSE,
          viaSpawner |-> {},
          foreign |-> NoForeign, unwinding |-> None, dead |-> "none",
          acceptsOk |-> 0, readsOk |-> 0, writesOk |-> 0, summaries |-> {}]

\* order   the reference queue: task ids in the order they were enqueued
\* expect  the head of the reference queue at the last dequeue
\* credit  the tasks with a cause for a resume that has not happened yet
\*         (spawned, woken by a handle, or reported by a poll)
\* owed    the tasks whose bound registration the last poll reported and
\*         that have not been resumed since
\* served  the last dequeue took a task of owed
\* uncaused  some dequeue took a task that had no credit
\* lastPoll  the keys the last poll reported, and the released keys then
\* fresh   the tasks spawned during the resume in progress
\* made    the tasks made ready (spawned, or woken with the awake flag
\*         unset) during the resume in progress
\* during  the tasks made ready during a resume of the drain in progress
\*         and not dequeued since
\* early, reentrant, late  the last dequeue took a task of fresh, of made,
\*         of during
\* foreign  the last handle operation another thread invoked: its fault,
\*         and whether arena and ready list were as before when it ended
\* unwinding  the task whose handle is dropped by a panic that unwinds
\* dead    the outcome of the last handle invocation after the scheduler
\*         was destroyed
\* rebound  the last accept bound the handle of its task in a registration
\*         where a handle of that task was still bound
\* viaSpawner  the spawns made through the spawner so far: the situation
\*         ("unset": before set_spawner, "attached", "dropped": after the
\*         executor was dropped), whether the result was Ok, and whether
\*         arena and ready list were as before when spawn returned
\* selfDone  the last resume reported Done after the task had woken itself
\*         (no task was dequeued since)
\* dropped  the pending operation that was dropped during the resume in
\*         progress: its task, its registration, whether a handle was bound

\* the reference queue after a wake of task t invoked in the current state
Enq(order, t) ==
  IF SlabContains(tasks.nodes, t) /\ ~SlabGet(tasks.nodes, t).awake
     /\ Count(order, t) = 0
  THEN Append(order, t) ELSE order

\* a set of tasks made ready, after a wake of task t in the current state
Made(s, t) ==
  IF SlabContains(tasks.nodes, t) /\ ~SlabGet(tasks.nodes, t).awake
  THEN s \cup {t} ELSE s

\* the credits after a wake handle of task t was invoked
Cred(credit, t) ==
  IF SlabContains(tasks.nodes, t) THEN credit \cup {t} ELSE credit

Commit(w0, npc, ncur, ng) ==
  \E w \in {w0} :
    /\ tasks' = w.tasks
    /\ reactor' = w.reactor
    /\ poll' = w.poll
    /\ stats' = w.stats
    /\ g' = [ng EXCEPT !.fault = w.fault, !.released = w.log.released,
                       !.ever = w.log.ever,
                       !.fresh = IF npc = "loop" THEN {} ELSE @,
                       !.made = IF npc = "loop" THEN {} ELSE @,
                       !.dropped = IF npc = "loop" THEN NoDrop ELSE @,
                       !.during = @ \cap SlabKeys(w.tasks.nodes)]
    /\ IF w.fault # "none"
       THEN pc' = "panic" /\ cur' = cur
       ELSE pc' = npc /\ cur' = ncur
    /\ variant' = variant
    /\ man' = man
    /\ spawner' = spawner

GSpawn(w0, kind) ==
  Bind(w0, LAMBDA w :
    [g EXCEPT !.lastSpawn = IF w.ret.ok THEN "ok" ELSE "err",
              !.spawned = IF w.ret.ok THEN @ + 1 ELSE @,
              !.nonImm = IF w.ret.ok /\ kind # "imm" THEN @ + 1 ELSE @,
              !.order = IF w.ret.ok THEN Append(@, w.ret.key) ELSE @,
              !.credit = IF w.ret.ok THEN @ \cup {w.ret.key} ELSE @,
              !.fresh = IF w.ret.ok /\ pc = "poll" THEN @ \cup {w.ret.key}
                        ELSE @,
              !.made = IF w.ret.ok /\ pc = "poll" THEN @ \cup {w.ret.key}
                       ELSE @,
              !.during = IF w.ret.ok /\ pc = "poll" THEN @ \cup {w.ret.key}
                         ELSE @])

\* the observations after a wake handle of task t was invoked
GWake(t) ==
  [g EXCEPT !.order = Enq(@, t), !.credit = Cred(@, t),
            !.made = Made(@, t), !.during = Made(@, t)]

(***************************************************************************)
(* The caller: spawn before run, then run.                                 *)
(***************************************************************************)
Spawn(kind) ==
  /\ pc = "init"
  /\ g.spawned < MaxSpawns
  /\ LET w == TasksAdd(World, FutOf(kind))
     IN Commit(w, "init", None, GSpawn(w, kind))
  /\ UNCHANGED held

RunStart ==
  /\ pc = "init"
  /\ pc' = "loop"
  /\ UNCHANGED <<variant, cur, tasks, reactor, poll, stats, held, g, man,
               spawner>>

(***************************************************************************)
(* process_next / exec: take the head of the ready list and resume it.     *)
(***************************************************************************)
ProcessNext ==
  /\ pc = "loop"
  /\ tasks.next # <<>>
  /\ LET nkey == ListHead(tasks.next)
         w0 == World
         w1 == IF ~SlabContains(tasks.nodes, nkey)
               THEN Fail(w0, "invalid key")
               ELSE LET w2 == [w0 EXCEPT !.tasks.next = ListRemove(@, nkey)]
                        w3 == SetTask(w2, nkey,
                                [Task(w2, nkey) EXCEPT !.awake = FALSE])
                    IN IF variant = "future" THEN WakerClone(w3, nkey)
                       ELSE w3
     IN Commit(w1, "poll", nkey,
               [g EXCEPT !.resumes = @ + 1,
                         !.expect = ListHead(g.order),
                         !.order = IF @ = <<>> THEN @ ELSE Tail(@),
                         !.uncaused = @ \/ nkey \notin g.credit,
                         !.served = nkey \in g.owed,
                         !.credit = @ \ {nkey},
                         !.owed = @ \ {nkey},
                         !.early = nkey \in g.fresh,
                         !.reentrant = nkey \in g.made,
                         !.late = nkey \in g.during,
                         !.during = @ \ {nkey},
                         !.selfDone = FALSE])
  /\ UNCHANGED held

\* EndResume with the removal from the arena forgotten
EndResume_NoRemove(w0, nkey, done) ==
  Bind(w0, LAMBDA w :
    LET w1 == IF variant = "future" THEN WakerDrop(w, nkey) ELSE w
    IN IF ~done \/ w1.fault # "none" THEN w1
       ELSE LET w2 == DropFut(w1, Task(w1, nkey).fut)
            IN IF w2.fault # "none" THEN w2
               ELSE IF Task(w2, nkey).refs # Baseline
               THEN Fail(w2, "refcount assert")
               ELSE [w2 EXCEPT !.tasks.next = ListRemove(@, nkey)])

\* EndResume with the assertion on the reference count forgotten
EndResume_NoAssert(w0, nkey, done) ==
  Bind(w0, LAMBDA w :
    LET w1 == IF variant = "future" THEN WakerDrop(w, nkey) ELSE w
    IN IF ~done \/ w1.fault # "none" THEN w1
       ELSE LET w2 == DropFut(w1, Task(w1, nkey).fut)
            IN IF w2.fault # "none" THEN w2
               ELSE [w2 EXCEPT !.tasks.next = ListRemove(@, nkey),
                               !.tasks.nodes = SlabRemove(@, nkey)])

\* EndResume that removes the completed task from the arena and leaves it
\* on the ready list
EndResume_KeepListed(w0, nkey, done) ==
  Bind(w0, LAMBDA w :
    LET w1 == IF variant = "future" THEN WakerDrop(w, nkey) ELSE w
    IN IF ~done \/ w1.fault # "none" THEN w1
       ELSE LET w2 == DropFut(w1, Task(w1, nkey).fut)
            IN IF w2.fault # "none" THEN w2
               ELSE IF Task(w2, nkey).refs # Baseline
               THEN Fail(w2, "refcount assert")
               ELSE [w2 EXCEPT !.tasks.nodes = SlabRemove(@, nkey)])

\* EndResume that links a task that reported Pending in again
EndResume_Requeue(w0, nkey, done) ==
  Bind(w0, LAMBDA w :
    LET w1 == IF variant = "future" THEN WakerDrop(w, nkey) ELSE w
    IN IF w1.fault # "none" THEN w1
       ELSE IF ~done THEN TasksWake(w1, nkey)
       ELSE LET w2 == DropFut(w1, Task(w1, nkey).fut)
            IN IF w2.fault # "none" THEN w2
               ELSE IF Task(w2, nkey).refs # Baseline
               THEN Fail(w2, "refcount assert")
               ELSE [w2 EXCEPT !.tasks.next = ListRemove(@, nkey),
                               !.tasks.nodes = SlabRemove(@, nkey)])

\* the resume of task nkey returns: Pending (done = FALSE) or Ready
EndResume(w0, nkey, done) ==
  Bind(w0, LAMBDA w :
    LET w1 == IF variant = "future" THEN WakerDrop(w, nkey) ELSE w
    IN IF ~done \/ w1.fault # "none" THEN w1
       ELSE LET w2 == DropFut(w1, Task(w1, nkey).fut)
            IN IF w2.fault # "none" THEN w2
               ELSE IF Task(w2, nkey).refs # Baseline
               THEN Fail(w2, "refcount assert")
               ELSE [w2 EXCEPT !.tasks.next = ListRemove(@, nkey),
                               !.tasks.nodes = SlabRemove(@, nkey)])

Running(kind) ==
  /\ pc = "poll"
  /\ SlabContains(tasks.nodes, cur)
  /\ SlabGet(tasks.nodes, cur).fut.kind = kind

CurFut == SlabGet(tasks.nodes, cur).fut

SetFut(w0, id, f) ==
  Bind(w0, LAMBDA w :
    SetTask(w, id, [Task(w, id) EXCEPT !.fut = f]))

ContReady ==
  /\ \/ Running("imm")
     \/ Running("gen") /\ ~CurFut.acc
  /\ Commit(EndResume(World, cur, TRUE), "loop", None,
            [g EXCEPT !.completions = @ + 1, !.credit = @ \ {cur},
                      !.order = ListRemove(@, cur),
                      !.selfDone = SlabGet(tasks.nodes, cur).awake])
  /\ UNCHANGED held

ContPending ==
  /\ Running("gen") /\ ~CurFut.acc
  /\ Commit(EndResume(World, cur, FALSE), "loop", None, g)
  /\ UNCHANGED held

\* cx.waker().wake_by_ref()
ContWake ==
  /\ Running("gen") /\ ~CurFut.acc
  /\ Commit(TasksWake(World, cur), "poll", cur, GWake(cur))
  /\ UNCHANGED held

\* cx.waker().clone(), kept by the continuation
ContClone ==
  /\ Running("gen") /\ ~CurFut.acc
  /\ Len(held) < MaxHeld
  /\ Commit(WakerClone(World, cur), "poll", cur, g)
  /\ held' = Append(held, cur)

RemoveAt(q, i) == SubSeq(q, 1, i - 1) \o SubSeq(q, i + 1, Len(q))

\* wake_by_ref on a kept duplicate
HeldWake(i) ==
  /\ Running("gen") /\ ~CurFut.acc
  /\ i \in 1..Len(held)
  /\ Commit(TasksWake(World, held[i]), "poll", cur, GWake(held[i]))
  /\ UNCHANGED held

\* wake (by value) on a kept duplicate
HeldWakeDrop(i) ==
  /\ Running("gen") /\ ~CurFut.acc
  /\ i \in 1..Len(held)
  /\ Commit(WakerWake(World, held[i]), "poll", cur, GWake(held[i]))
  /\ held' = RemoveAt(held, i)

\* drop of a kept duplicate
HeldDrop(i) ==
  /\ Running("gen") /\ ~CurFut.acc
  /\ i \in 1..Len(held)
  /\ Commit(WakerDrop(World, held[i]), "poll", cur, g)
  /\ held' = RemoveAt(held, i)

\* spawn from inside a continuation
ContSpawn(kind) ==
  /\ Running("gen") /\ ~CurFut.acc
  /\ g.spawned < MaxSpawns
  /\ LET w == TasksAdd(World, FutOf(kind))
     IN Commit(w, "poll", cur, GSpawn(w, kind))
  /\ UNCHANGED held

\* AsyncFakeListener::new
ContListen ==
  /\ Running("gen") /\ ~CurFut.acc
  /\ CurFut.l.key = None
  /\ \/ stats.register < MaxRegisters
     \/ reactor.registrations.len = RegsMax
  /\ LET w == AsyncNew(World, READABLE)
     IN Commit(IF w.fault # "none" THEN w
               ELSE SetFut(w, cur, [CurFut EXCEPT !.l = w.ret.io]),
               "poll", cur, g)
  /\ UNCHANGED held

\* drop of the listener
ContUnlisten ==
  /\ Running("gen") /\ ~CurFut.acc
  /\ CurFut.l.key # None
  /\ Commit(SetFut(AsyncDrop(World, CurFut.l), cur, [CurFut EXCEPT !.l = NoIo]),
            "poll", cur, g)
  /\ UNCHANGED held

\* listener.accept().await, the accepted stream being dropped at once
ContAccept ==
  /\ Running("gen")
  /\ CurFut.l.key # None
  /\ stats.accept < MaxAccepts
  /\ \/ stats.register < MaxRegisters
     \/ reactor.registrations.len = RegsMax
  /\ \E w \in {AcceptPoll(World, cur, CurFut.l)} :
     \E ng \in {[g EXCEPT !.dropped = NoDrop,
                           !.rebound = Reg(World, CurFut.l.key).waker = cur]} :
        IF w.fault # "none"
        THEN Commit(SetFut(w, cur, [CurFut EXCEPT !.acc = TRUE]),
                    "poll", cur, ng)
        ELSE IF w.ret.st = "pending"
        THEN Commit(EndResume(SetFut(w, cur, [CurFut EXCEPT !.l = w.ret.io,
                                                            !.acc = TRUE]),
                              cur, FALSE), "loop", None, ng)
        ELSE Commit(SetFut(AsyncDrop(unbind_waker(w, CurFut.l.key),
                                     w.ret.stream),
                           cur, [CurFut EXCEPT !.l = w.ret.io, !.acc = FALSE]),
                    "poll", cur, ng)
  /\ UNCHANGED held

\* drop of the pending AcceptFuture (the continuation gives up the accept)
ContCancel ==
  /\ Running("gen") /\ CurFut.acc
  /\ Commit(SetFut(unbind_waker(World, CurFut.l.key), cur,
                   [CurFut EXCEPT !.acc = FALSE]),
            "poll", cur,
            [g EXCEPT !.dropped =
               [task |-> cur, key |-> CurFut.l.key,
                bound |-> Reg(World, CurFut.l.key).waker # None]])
  /\ UNCHANGED held

(***************************************************************************)
(* run: when the ready list is empty, return if the arena is empty, else   *)
(* park on the reactor.                                                    *)
(***************************************************************************)
RECURSIVE EnqEvents(_, _, _)
EnqEvents(order, regs, evs) ==
  IF evs = <<>> THEN order
  ELSE LET key == Head(evs)[1]
           o2 == IF SlabContains(regs, key) /\ SlabGet(regs, key).waker # None
                 THEN Enq(order, SlabGet(regs, key).waker) ELSE order
       IN EnqEvents(o2, regs, Tail(evs))

\* the tasks whose wake handle is bound to a registration named in evs
Bound(regs, evs) ==
  {SlabGet(regs, evs[i][1]).waker :
     i \in {j \in 1..Len(evs) : /\ SlabContains(regs, evs[j][1])
                                /\ SlabGet(regs, evs[j][1]).waker # None}}

\* ParkStep that polls the reactor while tasks are still on the ready list
ParkStep_Busy ==
  /\ pc = "loop"
  /\ tasks.nodes.len # 0
  /\ \E w \in {ReactorPoll(World)} :
       LET evs == w.reactor.events
           woken == Bound(reactor.registrations, evs)
       IN Commit(w, "loop", None,
                 [g EXCEPT !.order = EnqEvents(@, reactor.registrations, evs),
                           !.owed = @ \cup woken,
                           !.credit = @ \cup woken,
                           !.lastPoll = [reported |->
                                           {evs[i][1] : i \in 1..Len(evs)},
                                         released |-> g.released,
                                         ever |-> g.ever]])
  /\ UNCHANGED held

ParkStep ==
  /\ pc = "loop"
  /\ tasks.next = <<>>
  /\ tasks.nodes.len # 0
  /\ \E w \in {ReactorPoll(World)} :
       LET evs == w.reactor.events
           woken == Bound(reactor.registrations, evs)
       IN Commit(w, "loop", None,
                 [g EXCEPT !.order = EnqEvents(@, reactor.registrations, evs),
                           !.owed = @ \cup woken,
                           !.credit = @ \cup woken,
                           !.lastPoll = [reported |->
                                           {evs[i][1] : i \in 1..Len(evs)},
                                         released |-> g.released,
                                         ever |-> g.ever]])
  /\ UNCHANGED held

\* the bounded scheduler steps of the generic scenario
Dequeue == g.resumes < MaxResumes /\ ProcessNext

Park == stats.poll < MaxPolls /\ ParkStep

\* Return with the test of the arena forgotten: run returns as soon as the
\* ready list is empty
Return_ListEmpty ==
  /\ pc = "loop"
  /\ tasks.next = <<>>
  /\ pc' = "returned"
  /\ UNCHANGED <<variant, cur, tasks, reactor, poll, stats, held, g, man,
               spawner>>

Return ==
  /\ pc = "loop"
  /\ tasks.next = <<>>
  /\ tasks.nodes.len = 0
  /\ pc' = "returned"
  /\ UNCHANGED <<variant, cur, tasks, reactor, poll, stats, held, g, man,
               spawner>>

ManIdle == [pc |-> "off"]

StatsInit == [register |-> 0, unregister |-> 0, poll |-> 0, accept |-> 0,
              read |-> 0, write |-> 0]

Init ==
  /\ variant \in {"bx", "future"}
  /\ pc = "init"
  /\ cur = None
  /\ tasks = [nodes |-> SlabWithCapacity(TasksMax), next |-> <<>>]
  /\ reactor = [registrations |-> SlabWithCapacity(RegsMax), events |-> <<>>]
  /\ poll = [items |-> SlabWithCapacity(PollCapacity)]
  /\ stats = StatsInit
  /\ held = <<>>
  /\ g = GInit
  /\ man = ManIdle
  /\ spawner = SpawnerNew

\* the scheduler with continuations that use the reactor
Next ==
  \/ \E kind \in {"imm", "gen"} : Spawn(kind)
  \/ RunStart
  \/ Dequeue
  \/ ContReady
  \/ ContPending
  \/ ContWake
  \/ \E kind \in {"imm", "gen"} : ContSpawn(kind)
  \/ ContListen
  \/ ContUnlisten
  \/ ContAccept
  \/ ContCancel
  \/ Park
  \/ Return

Spec == Init /\ [][Next]_vars

\* the scheduler with continuations that keep and use duplicates of their
\* wake handles
NextHandles ==
  \/ \E kind \in {"imm", "gen"} : Spawn(kind)
  \/ RunStart
  \/ Dequeue
  \/ ContReady
  \/ ContPending
  \/ ContWake
  \/ ContClone
  \/ \E i \in 1..MaxHeld : HeldWake(i)
  \/ \E i \in 1..MaxHeld : HeldWakeDrop(i)
  \/ \E i \in 1..MaxHeld : HeldDrop(i)
  \/ \E kind \in {"imm", "gen"} : ContSpawn(kind)
  \/ Park
  \/ Return

SpecHandles == Init /\ [][NextHandles]_vars

(***************************************************************************)
(* The boxrc executor with Rc handles, unchecked ("boxrc") and checked     *)
(* ("boxrc_checked"): duplicates kept outside the continuations are used   *)
(* by the thread of the scheduler, by another thread, and after the        *)
(* scheduler was destroyed.                                                *)
(***************************************************************************)
Alive == pc # "destroyed"

\* a kept duplicate is used by a continuation
OwnOp(op, i) ==
  /\ Running("gen") /\ ~CurFut.acc
  /\ i \in 1..Len(held)
  /\ op \in HandleOps \ {"clone"}
  /\ Commit(HandleOp(World, op, Alive, held[i], TRUE), "poll", cur,
            IF op = "drop" THEN g ELSE GWake(held[i]))
  /\ held' = IF op \in Consuming THEN RemoveAt(held, i) ELSE held

\* a kept duplicate is used by another thread, which panics
ForeignOp(op, i) ==
  /\ variant = "boxrc_checked"
  /\ pc \in {"loop", "poll", "destroyed"}
  /\ i \in 1..Len(held)
  /\ op \in HandleOps
  /\ g.unwinding = None
  /\ \E w \in {HandleOp(World, op, Alive, held[i], FALSE)} :
       /\ tasks' = w.tasks
       /\ held' = IF op \in Consuming THEN RemoveAt(held, i) ELSE held
       /\ g' = [(IF w.fault = "none" /\ op # "drop" THEN GWake(held[i])
                 ELSE g) EXCEPT
                 !.foreign = [op |-> op, task |-> held[i], fault |-> w.fault,
                              same |-> w.tasks = tasks],
                 !.unwinding = IF op \in Consuming /\ w.fault # "none"
                               THEN held[i] ELSE None]
  /\ UNCHANGED <<variant, pc, cur, reactor, poll, stats, man, spawner>>

\* the panic of the other thread unwinds: the Rc that wake or drop_waker
\* had taken over is dropped
UnwindForeign ==
  /\ g.unwinding # None
  /\ \E w \in {RcRelease(World, Alive, g.unwinding)} :
       /\ tasks' = w.tasks
       /\ g' = [g EXCEPT !.unwinding = None]
  /\ UNCHANGED <<variant, pc, cur, reactor, poll, stats, held, man,
               spawner>>

\* the executor is dropped, after run returned or as its panic unwinds:
\* the tasks, their futures and the handles of the slots go
DropExecutor ==
  /\ pc \in {"panic", "returned"}
  /\ pc' = "destroyed"
  /\ tasks' = [nodes |-> SlabWithCapacity(TasksMax), next |-> <<>>]
  /\ spawner' = DetachSpawner(spawner)
  /\ UNCHANGED <<variant, cur, reactor, poll, stats, held, g, man>>

\* a kept duplicate is used after the executor was dropped, by the thread
\* that had created it
DeadOp(op, i) ==
  /\ pc = "destroyed"
  /\ i \in 1..Len(held)
  /\ op \in HandleOps \ {"clone"}
  /\ \E w \in {HandleOp(World, op, Alive, held[i], TRUE)} :
       /\ tasks' = w.tasks
       /\ held' = IF op \in Consuming THEN RemoveAt(held, i) ELSE held
       /\ g' = [g EXCEPT !.dead = IF w.fault = "none" /\ w.tasks = tasks
                                  THEN "noop"
                                  ELSE IF w.fault = "none" THEN "effect"
                                  ELSE "fault"]
  /\ UNCHANGED <<variant, pc, cur, reactor, poll, stats, man, spawner>>

InitRc ==
  /\ variant \in {"boxrc", "boxrc_checked"}
  /\ pc = "init"
  /\ cur = None
  /\ tasks = [nodes |-> SlabWithCapacity(TasksMax), next |-> <<>>]
  /\ reactor = [registrations |-> SlabWithCapacity(RegsMax), events |-> <<>>]
  /\ poll = [items |-> SlabWithCapacity(PollCapacity)]
  /\ stats = StatsInit
  /\ held = <<>>
  /\ g = GInit
  /\ man = ManIdle
  /\ spawner = SpawnerNew

NextRc ==
  \/ \E kind \in {"imm", "gen"} : Spawn(kind)
  \/ RunStart
  \/ Dequeue
  \/ ContReady
  \/ ContPending
  \/ ContWake
  \/ ContClone
  \/ \E op \in HandleOps, i \in 1..MaxHeld : OwnOp(op, i)
  \/ \E op \in HandleOps, i \in 1..MaxHeld : ForeignOp(op, i)
  \/ UnwindForeign
  \/ Park
  \/ Return
  \/ DropExecutor
  \/ \E op \in HandleOps, i \in 1..MaxHeld : DeadOp(op, i)

SpecRc == InitRc /\ [][NextRc]_vars

(***************************************************************************)
(* The executor with a spawner (executor::ArgExecutor, future::Executor):  *)
(* the spawner is used before set_spawner, while attached (by the caller   *)
(* and by continuations) and after the executor was dropped.               *)
(***************************************************************************)
\* ArgExecutor::set_spawner / Executor::set_spawner
SetSpawner ==
  /\ pc = "init"
  /\ spawner' = [spawner EXCEPT !.data = Ctx]
  /\ UNCHANGED <<variant, pc, cur, tasks, reactor, poll, stats, held, g, man>>

\* spawner.spawn(..), by the caller or by the continuation being resumed
ViaSpawner(kind) ==
  /\ \/ pc \in {"init", "destroyed"}
     \/ Running("gen")
  /\ g.spawned < MaxSpawns
  /\ \E w \in {SpawnerSpawn(World, spawner, FutOf(kind))} :
       Commit(w, pc, cur,
              [GSpawn(w, kind) EXCEPT
                 !.viaSpawner = @ \cup
                   {<<IF pc = "destroyed" THEN "dropped"
                      ELSE IF spawner.data = None THEN "unset"
                      ELSE "attached",
                      w.ret.ok, w.tasks = tasks>>}])
  /\ UNCHANGED held

InitSpawner ==
  /\ variant \in {"arg", "future"}
  /\ pc = "init"
  /\ cur = None
  /\ tasks = [nodes |-> SlabWithCapacity(TasksMax), next |-> <<>>]
  /\ reactor = [registrations |-> SlabWithCapacity(RegsMax), events |-> <<>>]
  /\ poll = [items |-> SlabWithCapacity(PollCapacity)]
  /\ stats = StatsInit
  /\ held = <<>>
  /\ g = GInit
  /\ man = ManIdle
  /\ spawner = SpawnerNew

NextSpawner ==
  \/ SetSpawner
  \/ \E kind \in {"imm", "gen"} : ViaSpawner(kind)
  \/ RunStart
  \/ Dequeue
  \/ ContReady
  \/ ContPending
  \/ ContWake
  \/ Park
  \/ Return
  \/ DropExecutor

SpecSpawner == InitSpawner /\ [][NextSpawner]_vars

(***************************************************************************)
(* The echo workload of run.rs on the executor: listen and connection.     *)
(***************************************************************************)
Listen == [kind |-> "listen", l |-> NoIo, started |-> FALSE, i |-> 0,
           acc |-> FALSE]

Connection(stream) == [kind |-> "conn", s |-> stream, buf |-> <<>>,
                       sent |-> 0, phase |-> "read", pend |-> FALSE,
                       rOk |-> 0, wOk |-> 0]

\* ReadPoll that hands the WouldBlock of the stream to the caller as the
\* result of the read
ReadPoll_Surface(w0, task_id, st, space) ==
  Bind(w0, LAMBDA w :
    LET w1 == bind_waker(w, st.key, task_id)
    IN IF ~is_ready(w1, st.key)
       THEN [w1 EXCEPT !.ret = [ok |-> TRUE, st |-> "pending", io |-> st,
                                data |-> <<>>]]
       ELSE LET w2 == FakeRead(w1, st, space)
            IN IF w2.fault # "none" THEN w2
               ELSE [w2 EXCEPT !.ret = [ok |-> TRUE, st |-> "ready",
                                        io |-> w2.ret.io, data |-> w2.ret.data]])

\* ReadFuture::poll; space = buf.len()
ReadPoll(w0, task_id, st, space) ==
  Bind(w0, LAMBDA w :
    LET w1 == bind_waker(w, st.key, task_id)
    IN IF ~is_ready(w1, st.key)
       THEN [w1 EXCEPT !.ret = [ok |-> TRUE, st |-> "pending", io |-> st,
                                data |-> <<>>]]
       ELSE LET w2 == FakeRead(w1, st, space)
            IN IF w2.fault # "none" THEN w2
               ELSE IF w2.ret.wb
               THEN [set_ready(w2, st.key, FALSE) EXCEPT
                       !.ret = [ok |-> TRUE, st |-> "pending", io |-> w2.ret.io,
                                data |-> <<>>]]
               ELSE [w2 EXCEPT !.ret = [ok |-> TRUE, st |-> "ready",
                                        io |-> w2.ret.io, data |-> w2.ret.data]])

\* WriteFuture::poll; ret.data is what was accepted
WritePoll(w0, task_id, st, data) ==
  Bind(w0, LAMBDA w :
    LET w1 == bind_waker(w, st.key, task_id)
    IN IF ~is_ready(w1, st.key)
       THEN [w1 EXCEPT !.ret = [ok |-> TRUE, st |-> "pending", io |-> st,
                                data |-> <<>>]]
       ELSE LET w2 == FakeWrite(w1, st, data)
            IN IF w2.ret.wb
               THEN [set_ready(w2, st.key, FALSE) EXCEPT
                       !.ret = [ok |-> TRUE, st |-> "pending", io |-> w2.ret.io,
                                data |-> <<>>]]
               ELSE [w2 EXCEPT !.ret = [ok |-> TRUE, st |-> "ready",
                                        io |-> w2.ret.io, data |-> w2.ret.data]])

\* run_nonbox / run_box / run_box_rc: spawn the listener, then run
EchoStart ==
  /\ pc = "init"
  /\ LET w == TasksAdd(World, Listen)
     IN Commit(IF w.ret.ok THEN w ELSE Fail(w, "spawn unwrap"), "loop", None,
               GSpawn(w, "listen"))
  /\ UNCHANGED held

EchoResume == ProcessNext

EchoPark == stats.poll < MaxEchoPolls /\ ParkStep

\* AsyncFakeListener::new at the start of listen
ListenInit ==
  /\ Running("listen") /\ ~CurFut.started
  /\ LET w == AsyncNew(World, READABLE)
     IN Commit(IF w.fault # "none" THEN w
               ELSE SetFut(w, cur, [CurFut EXCEPT !.l = w.ret.io,
                                                  !.started = TRUE]),
               "poll", cur, g)
  /\ UNCHANGED held

\* one turn of the loop of listen: listener.accept().await?, then spawn
ListenAccept ==
  /\ Running("listen") /\ CurFut.started /\ CurFut.i < CONNS_MAX
  /\ \E w \in {AcceptPoll(World, cur, CurFut.l)} :
       IF w.fault # "none" THEN Commit(w, "poll", cur, g)
       ELSE IF w.ret.st = "pending"
       THEN Commit(EndResume(SetFut(w, cur, [CurFut EXCEPT !.l = w.ret.io,
                                                           !.acc = TRUE]),
                             cur, FALSE), "loop", None, g)
       ELSE \E w2 \in {TasksAdd(SetFut(unbind_waker(w, CurFut.l.key), cur,
                                       [CurFut EXCEPT !.l = w.ret.io,
                                                      !.acc = FALSE,
                                                      !.i = @ + 1]),
                                Connection(w.ret.stream))} :
              Commit(IF w2.ret.ok THEN w2 ELSE Fail(w2, "spawn unwrap"),
                     "poll", cur,
                     [GSpawn(w2, "conn") EXCEPT !.acceptsOk = @ + 1])
  /\ UNCHANGED held

ListenDone ==
  /\ Running("listen") /\ CurFut.started /\ CurFut.i >= CONNS_MAX
  /\ Commit(EndResume(World, cur, TRUE), "loop", None,
            [g EXCEPT !.completions = @ + 1, !.credit = @ \ {cur}, !.order = ListRemove(@, cur)])
  /\ UNCHANGED held

\* one turn of the first loop of connection: stream.read(..).await?
ConnRead ==
  /\ Running("conn") /\ CurFut.phase = "read"
  /\ \E f \in {CurFut} :
     \E w \in {ReadPoll(World, cur, f.s, SMALL_BUFSIZE - Len(f.buf))} :
        IF w.fault # "none" THEN Commit(w, "poll", cur, g)
        ELSE IF w.ret.st = "pending"
        THEN Commit(EndResume(SetFut(w, cur, [f EXCEPT !.s = w.ret.io,
                                                       !.pend = TRUE]),
                              cur, FALSE), "loop", None, g)
        ELSE LET buf == f.buf \o w.ret.data
                 full == w.ret.data = LINE
             IN Commit(SetFut(unbind_waker(w, f.s.key), cur,
                         [f EXCEPT !.s = w.ret.io, !.pend = FALSE,
                                   !.buf = buf,
                                   !.rOk = IF full THEN @ + 1 ELSE @,
                                   !.phase = IF Contains(buf, NEWLINE)
                                             THEN "write" ELSE "read"]),
                       "poll", cur,
                       [g EXCEPT !.readsOk = IF full THEN @ + 1 ELSE @])
  /\ UNCHANGED held

\* one turn of the second loop of connection: stream.write(..).await?
ConnWrite ==
  /\ Running("conn") /\ CurFut.phase = "write"
  /\ CurFut.sent < Len(CurFut.buf)
  /\ \E f \in {CurFut} :
     \E w \in {WritePoll(World, cur, f.s,
                         SubSeq(f.buf, f.sent + 1, Len(f.buf)))} :
        IF w.fault # "none" THEN Commit(w, "poll", cur, g)
        ELSE IF w.ret.st = "pending"
        THEN Commit(EndResume(SetFut(w, cur, [f EXCEPT !.s = w.ret.io,
                                                       !.pend = TRUE]),
                              cur, FALSE), "loop", None, g)
        ELSE LET sent == f.sent + Len(w.ret.data)
                 flushed == sent >= Len(f.buf)
             IN Commit(SetFut(unbind_waker(w, f.s.key), cur,
                         [f EXCEPT !.s = w.ret.io, !.pend = FALSE,
                                   !.sent = sent,
                                   !.wOk = IF flushed THEN @ + 1 ELSE @]),
                       "poll", cur,
                       [g EXCEPT !.writesOk = IF flushed THEN @ + 1 ELSE @])
  /\ UNCHANGED held

\* ConnDone without the test of sent: the connection returns as soon as it
\* is sending
ConnDone_Early ==
  /\ Running("conn") /\ CurFut.phase = "write"
  /\ Commit(EndResume(World, cur, TRUE), "loop", None,
            [g EXCEPT !.completions = @ + 1, !.credit = @ \ {cur}, !.order = ListRemove(@, cur),
                      !.summaries = @ \cup {<<CurFut.rOk, CurFut.wOk>>}])
  /\ UNCHANGED held

ConnDone ==
  /\ Running("conn") /\ CurFut.phase = "write"
  /\ CurFut.sent >= Len(CurFut.buf)
  /\ Commit(EndResume(World, cur, TRUE), "loop", None,
            [g EXCEPT !.completions = @ + 1, !.credit = @ \ {cur}, !.order = ListRemove(@, cur),
                      !.summaries = @ \cup {<<CurFut.rOk, CurFut.wOk>>}])
  /\ UNCHANGED held

EchoReturn == Return

\* InitEcho with an executor and a reactor that hold three entries each
InitEcho_Small ==
  /\ variant \in Variants
  /\ pc = "init"
  /\ cur = None
  /\ tasks = [nodes |-> SlabWithCapacity(3), next |-> <<>>]
  /\ reactor = [registrations |-> SlabWithCapacity(3), events |-> <<>>]
  /\ poll = [items |-> SlabWithCapacity(PollCapacity)]
  /\ stats = StatsInit
  /\ held = <<>>
  /\ g = GInit
  /\ man = ManIdle
  /\ spawner = SpawnerNew

InitEcho ==
  /\ variant \in Variants
  /\ pc = "init"
  /\ cur = None
  /\ tasks = [nodes |-> SlabWithCapacity(CONNS_MAX + 1), next |-> <<>>]
  /\ reactor = [registrations |-> SlabWithCapacity(CONNS_MAX + 1),
                events |-> <<>>]
  /\ poll = [items |-> SlabWithCapacity(PollCapacity)]
  /\ stats = StatsInit
  /\ held = <<>>
  /\ g = GInit
  /\ man = ManIdle
  /\ spawner = SpawnerNew

NextEcho ==
  \/ EchoStart
  \/ EchoResume
  \/ ListenInit
  \/ ListenAccept
  \/ ListenDone
  \/ ConnRead
  \/ ConnWrite
  \/ ConnDone
  \/ EchoPark
  \/ EchoReturn

SpecEcho == InitEcho /\ [][NextEcho]_vars

FairSpecEcho == SpecEcho /\ WF_vars(NextEcho)

(***************************************************************************)
(* RunManual::run, the hand-written event loop of run.rs, on its own       *)
(* fakeio::Poll and Stats (the record man).                                *)
(***************************************************************************)
ManInit == [pc |-> "init", stats |-> StatsInit,
            items |-> SlabWithCapacity(CONNS_MAX + 1), events |-> <<>>,
            conns |-> SlabWithCapacity(CONNS_MAX), needs_process |-> <<>>,
            listener |-> NoIo, can_accept |-> FALSE, accept_left |-> 0,
            fault |-> "none"]

\* the world of the manual loop, for the fakeio operations
ManWorld(m) == [poll |-> [items |-> m.items], stats |-> m.stats,
                reactor |-> [events |-> m.events], fault |-> "none",
                ret |-> [ok |-> TRUE]]

ManPut(m, w) == [m EXCEPT !.items = w.poll.items, !.stats = w.stats,
                          !.events = w.reactor.events,
                          !.fault = w.fault,
                          !.pc = IF w.fault # "none" THEN "panic" ELSE @]

\* Connection::process; the result is [w, c, done]
RECURSIVE ConnProcess(_, _)
ConnProcess(w0, c) ==
  Bind(w0, LAMBDA w :
    IF c.state = "ReceivingRequest"
    THEN LET w1 == FakeRead(w, c.stream, SMALL_BUFSIZE - Len(c.buf))
         IN IF w1.fault # "none" THEN [w |-> w1, c |-> c, done |-> FALSE]
            ELSE IF w1.ret.wb
            THEN [w |-> w1, done |-> FALSE,
                  c |-> [c EXCEPT !.stream = w1.ret.io, !.can_read = FALSE]]
            ELSE LET buf == c.buf \o w1.ret.data
                 IN ConnProcess(w1, [c EXCEPT !.stream = w1.ret.io,
                                       !.buf = buf,
                                       !.state = IF Contains(buf, NEWLINE)
                                                 THEN "SendingResponse"
                                                 ELSE @])
    ELSE LET w1 == FakeWrite(w, c.stream, SubSeq(c.buf, c.sent + 1, Len(c.buf)))
         IN IF w1.ret.wb
            THEN [w |-> w1, done |-> FALSE,
                  c |-> [c EXCEPT !.stream = w1.ret.io, !.can_write = FALSE]]
            ELSE LET c2 == [c EXCEPT !.stream = w1.ret.io,
                                     !.sent = @ + Len(w1.ret.data)]
                 IN IF c2.sent >= Len(c2.buf)
                    THEN [w |-> w1, c |-> c2, done |-> TRUE]
                    ELSE ConnProcess(w1, c2))

ManCanAccept == man.accept_left > 0 /\ man.can_accept

Others == <<variant, pc, cur, tasks, reactor, poll, stats, held, g, spawner>>

\* the start of run: register the listener under key 0
ManStart ==
  /\ man.pc = "init"
  /\ LET w == PollRegister(ManWorld(man), 0, READABLE)
     IN man' = [ManPut(man, w) EXCEPT
                  !.pc = "loop",
                  !.listener = [key |-> 0, index |-> w.ret.index, calls |-> 0],
                  !.can_accept = TRUE,
                  !.accept_left = CONNS_MAX]
  /\ UNCHANGED Others

\* one turn of the accept loop
ManAccept ==
  /\ man.pc = "loop"
  /\ ManCanAccept
  /\ LET w == FakeAccept(ManWorld(man), man.listener)
     IN IF w.ret.wb
        THEN man' = [ManPut(man, w) EXCEPT !.listener = w.ret.io,
                                           !.can_accept = FALSE]
        ELSE LET key == man.conns.next
                 w1 == PollRegister(w, key + 1, READABLE + WRITABLE)
                 c == [stream |-> [key |-> key + 1, index |-> w1.ret.index,
                                   calls |-> 0],
                       can_read |-> TRUE, can_write |-> TRUE,
                       state |-> "ReceivingRequest", buf |-> <<>>,
                       sent |-> 0]
             IN man' = [ManPut(man, w1) EXCEPT
                          !.listener = w.ret.io,
                          !.accept_left = @ - 1,
                          !.conns = SlabInsert(@, c),
                          !.needs_process = ListPushBack(@, key)]
  /\ UNCHANGED Others

\* one turn of the processing loop
ManProcess ==
  /\ man.pc = "loop"
  /\ ~ManCanAccept
  /\ man.needs_process # <<>>
  /\ LET key == ListHead(man.needs_process)
         r == ConnProcess(ManWorld(man), SlabGet(man.conns, key))
         m1 == [man EXCEPT !.needs_process = ListRemove(@, key)]
     IN IF r.done
        THEN man' = [ManPut(m1, PollUnregister(r.w, r.c.stream.index)) EXCEPT
                       !.conns = SlabRemove(@, key)]
        ELSE man' = [ManPut(m1, r.w) EXCEPT !.conns = SlabSet(@, key, r.c)]
  /\ UNCHANGED Others

\* the for loop over the events of one poll
RECURSIVE ManEvents(_, _)
ManEvents(m, evs) ==
  IF evs = <<>> \/ m.fault # "none" THEN m
  ELSE LET key == Head(evs)[1]
           state == Head(evs)[2]
       IN IF key = 0
          THEN ManEvents([m EXCEPT !.can_accept = TRUE], Tail(evs))
          ELSE IF ~SlabContains(m.conns, key - 1)
          THEN [m EXCEPT !.fault = "invalid key", !.pc = "panic"]
          ELSE LET c == SlabGet(m.conns, key - 1)
                   rd == state % 2 = 1
                   wr == (state \div 2) % 2 = 1
                   c2 == [c EXCEPT !.can_read = IF rd THEN TRUE ELSE @,
                                   !.can_write = IF wr THEN TRUE ELSE @]
               IN ManEvents([m EXCEPT
                   !.conns = SlabSet(@, key - 1, c2),
                   !.needs_process =
                     IF rd \/ wr
                     THEN ListPushBack(ListRemove(@, key - 1), key - 1)
                     ELSE @], Tail(evs))

ManPoll ==
  /\ man.pc = "loop"
  /\ ~ManCanAccept
  /\ man.needs_process = <<>>
  /\ ~(man.accept_left = 0 /\ man.conns.len = 0)
  /\ man.stats.poll < MaxEchoPolls
  /\ LET w == PollPoll(ManWorld(man))
     IN man' = ManEvents(ManPut(man, w), w.reactor.events)
  /\ UNCHANGED Others

\* the break and the unregister of the listener
ManBreak ==
  /\ man.pc = "loop"
  /\ ~ManCanAccept
  /\ man.needs_process = <<>>
  /\ man.accept_left = 0 /\ man.conns.len = 0
  /\ man' = [ManPut(man, PollUnregister(ManWorld(man), man.listener.index))
               EXCEPT !.pc = "done"]
  /\ UNCHANGED Others

InitEquiv ==
  /\ variant = "arg"
  /\ pc = "init"
  /\ cur = None
  /\ tasks = [nodes |-> SlabWithCapacity(CONNS_MAX + 1), next |-> <<>>]
  /\ reactor = [registrations |-> SlabWithCapacity(CONNS_MAX + 1),
                events |-> <<>>]
  /\ poll = [items |-> SlabWithCapacity(PollCapacity)]
  /\ stats = StatsInit
  /\ held = <<>>
  /\ g = GInit
  /\ man = ManInit
  /\ spawner = SpawnerNew

NextEquiv ==
  \/ EchoStart
  \/ EchoResume
  \/ ListenInit
  \/ ListenAccept
  \/ ListenDone
  \/ ConnRead
  \/ ConnWrite
  \/ ConnDone
  \/ EchoPark
  \/ EchoReturn
  \/ ManStart
  \/ ManAccept
  \/ ManProcess
  \/ ManPoll
  \/ ManBreak

SpecEquiv == InitEquiv /\ [][NextEquiv]_vars

(***************************************************************************)
(* Properties                                                              *)
(***************************************************************************)
ExpectedStats(n) == [register |-> n + 1, unregister |-> n + 1,
                     poll |-> n + 2, accept |-> 2 * n, read |-> 2 * n,
                     write |-> 2 * n]

\* C1: when only continuations that report Done on their first resume were
\* spawned, the reactor is never polled, no task is resumed twice, and when
\* run returns every spawned task has been resumed once and has completed
\* (resumes = completions = spawned) and the arena is empty.
C1_ImmediateTasks ==
  g.nonImm = 0 =>
    /\ stats.poll = 0
    /\ g.resumes <= g.spawned
    /\ pc = "returned" =>
         /\ g.completions = g.spawned
         /\ g.resumes = g.spawned
         /\ tasks.nodes.len = 0

C1_Witness ==
  pc = "returned" /\ g.nonImm = 0 /\ g.spawned = TasksMax
  /\ g.completions = TasksMax

\* C2: the echo workload returns from run, and when it has returned there
\* were CONNS_MAX successful accepts, every connection had exactly one read
\* that returned the full line and one write that flushed it, and the arena
\* is empty.
C2_EchoTerminates ==
  /\ <>(pc = "returned")
  /\ [](pc = "returned" =>
          /\ g.acceptsOk = CONNS_MAX
          /\ g.readsOk = CONNS_MAX
          /\ g.writesOk = CONNS_MAX
          /\ g.summaries = {<<1, 1>>}
          /\ tasks.nodes.len = 0
          /\ tasks.next = <<>>)

C2_Witness ==
  pc = "returned" /\ g.acceptsOk = CONNS_MAX /\ g.completions = CONNS_MAX + 1

\* C3: when the echo workload has returned, on any executor variant, the
\* attempt counters are register = unregister = CONNS_MAX + 1,
\* poll = CONNS_MAX + 2, accept = read = write = 2 * CONNS_MAX.
C3_EchoStats == pc = "returned" => stats = ExpectedStats(CONNS_MAX)

C3_Witness == pc = "returned" /\ stats.poll = CONNS_MAX + 2 /\ stats.accept = 2 * CONNS_MAX

\* C4: when both the hand-written loop and the executor-driven workload
\* have terminated, their six counters are equal.
C4_ManualEquivalent ==
  (man.pc = "done" /\ pc = "returned") => man.stats = stats

C4_Witness == man.pc = "done" /\ pc = "returned" /\ man.stats.read > 0

\* C5: a task whose wake handle was bound to a registration that a reactor
\* poll reported is queued for exactly one resume until it is resumed (no
\* missed resume: it is in the ready list, so it is resumed before the next
\* poll or the return of run), and no task is ever resumed without a cause
\* that was not used up by an earlier resume (no double resume): a cause
\* is its spawn, an invocation of its wake handle, or a poll that reported
\* the registration its handle was bound to.
C5_ResumeOncePerEvent ==
  /\ \A t \in g.owed :
       SlabContains(tasks.nodes, t) /\ Count(tasks.next, t) = 1
  /\ (pc = "loop" /\ tasks.next = <<>>) => g.owed = {}
  /\ ~g.uncaused

C5_Witness ==
  pc = "poll" /\ g.served /\ stats.poll > 0 /\ g.owed = {} /\ ~g.uncaused

\* C6: wake is idempotent.  In every reachable state, for all tasks t and
\* u, waking t again after it was woken, even with a wake of u in between,
\* changes nothing (flags, ready list and the position of t in it), and a
\* woken task has its awake flag set and exactly one entry in the ready
\* list; a task has an entry exactly when its awake flag is set, so the
\* dequeue that clears the flag leaves no second resume behind.
C6_WakeIdempotent ==
  \A t \in SlabKeys(tasks.nodes) :
    /\ Count(tasks.next, t) = IF SlabGet(tasks.nodes, t).awake THEN 1 ELSE 0
    /\ \A u \in SlabKeys(tasks.nodes) :
         \E w1 \in {TasksWake(World, t)} :
         \E w2 \in {TasksWake(w1, u)} :
           /\ TasksWake(w1, t) = w1
           /\ TasksWake(w2, t) = w2
           /\ Task(w1, t).awake
           /\ Count(w1.tasks.next, t) = 1

\* the running task has woken itself and another task was queued after it
C6_Witness ==
  /\ pc = "poll"
  /\ SlabContains(tasks.nodes, cur)
  /\ SlabGet(tasks.nodes, cur).awake
  /\ Len(tasks.next) >= 2
  /\ tasks.next[1] = cur

\* C7: in every reachable state each task id occurs at most once in the
\* ready list.
C7_ReadyListUnique ==
  \A i, j \in 1..Len(tasks.next) : tasks.next[i] = tasks.next[j] => i = j

\* two tasks are queued, one of them by a wake after a resume
C7_Witness ==
  Len(tasks.next) >= 2 /\ g.resumes >= 1 /\ pc = "poll"
  /\ Count(tasks.next, cur) = 1

\* C8: the number of live tasks never exceeds tasks_max, and in every
\* reachable state that holds tasks_max live tasks a spawn returns an error
\* and changes nothing (arena, ready list, awake flags, reference counts,
\* reactor, counters).
C8_SpawnAtCapacity ==
  /\ tasks.nodes.len <= TasksMax
  /\ tasks.nodes.len = Cardinality(SlabKeys(tasks.nodes))
  /\ tasks.nodes.len = TasksMax =>
       \A f \in {Imm, Gen} :
         \E w \in {TasksAdd(World, f)} :
           /\ ~w.ret.ok
           /\ w.tasks = tasks
           /\ w.reactor = reactor
           /\ w.poll = poll
           /\ w.stats = stats
           /\ w.fault = "none"

C8_Witness ==
  g.lastSpawn = "err" /\ tasks.nodes.len = TasksMax /\ g.spawned = TasksMax

\* C9 as claimed: no poll reports a key that was released at any time
\* before it.
C9_NeverReportedAgain == g.lastPoll.reported \cap g.lastPoll.ever = {}

\* C9 as amended: no poll reports a key that was released and has not been
\* handed out again by a later register; such a key has no registration
\* (no ready flag to set, no wake handle to invoke) and no item in the
\* readiness source.
C9_ReleasedNotReported ==
  /\ g.lastPoll.reported \cap g.lastPoll.released = {}
  /\ \A k \in g.released :
       /\ ~SlabContains(reactor.registrations, k)
       /\ \A i \in SlabKeys(poll.items) : SlabGet(poll.items, i)[2] # k

\* a poll that reported a key while another key was released
C9_Witness ==
  g.lastPoll.released # {} /\ g.lastPoll.reported # {} /\ stats.poll > 0

\* C10: every dequeue takes the task that was enqueued first among the
\* tasks waiting (the head of the reference queue, in which a task is
\* entered at its spawn and at each wake that finds its awake flag unset),
\* and the ready list is that queue.
C10_FifoOrder ==
  /\ pc = "poll" => cur = g.expect
  /\ pc \in {"init", "loop", "poll", "returned"} => tasks.next = g.order

\* the second spawned task is resumed ahead of the first, which was
\* resumed earlier and enqueued again by a wake
C10_Witness ==
  /\ pc = "poll"
  /\ g.resumes >= 2
  /\ cur = g.expect
  /\ g.order # <<>>
  /\ g.order[1] < cur

\* C11: spawn only allocates the task, sets its awake flag and appends it
\* to the ready list.  Whenever a continuation is running, a spawn changes
\* nothing but the arena slot it fills (awake, baseline reference count,
\* the continuation as it was passed) and the tail of the ready list; a
\* task spawned during the resume in progress is still unresumed while
\* that resume lasts (live, awake, queued once, continuation in its
\* initial state, not the running task), and no dequeue takes a task that
\* was spawned during a resume that has not returned.
C11_SpawnDoesNotResume ==
  /\ ~g.early
  /\ pc = "poll" =>
       /\ cur \notin g.fresh
       /\ \A t \in g.fresh :
            /\ SlabContains(tasks.nodes, t)
            /\ SlabGet(tasks.nodes, t).awake
            /\ Count(tasks.next, t) = 1
            /\ SlabGet(tasks.nodes, t).fut \in {Imm, Gen}
       /\ \A f \in {Imm, Gen} :
            \E w \in {TasksAdd(World, f)} :
              w.ret.ok =>
                /\ w.tasks.nodes = SlabInsert(tasks.nodes,
                                     [awake |-> TRUE, refs |-> Baseline,
                                      fut |-> f])
                /\ w.tasks.next = Append(tasks.next, w.ret.key)
                /\ w.reactor = reactor /\ w.poll = poll /\ w.stats = stats
                /\ w.fault = "none"

\* a task spawned from inside a continuation is being resumed, after the
\* resume of its spawner has returned
C11_Witness ==
  /\ pc = "poll"
  /\ g.late
  /\ ~g.early
  /\ g.fresh = {}
  /\ g.spawned >= 2
  /\ SlabGet(tasks.nodes, cur).fut.kind = "imm"

\* C12 as claimed: no dequeue takes a task that was made ready during a
\* resume of the same drain of the ready list (the drain between two
\* reactor polls).
C12_NextPassOnly == ~g.late

\* C12 as amended: a task made ready during a resume (spawned, or woken,
\* also by itself) is not resumed within that resume: while the resume
\* lasts it is live, awake and queued exactly once, and no dequeue takes a
\* task made ready during a resume that has not returned.  It may be
\* resumed in the same drain: the drain goes on until the list is empty.
C12_NotWithinResume ==
  /\ ~g.reentrant
  /\ pc = "poll" =>
       \A t \in g.made :
         /\ SlabContains(tasks.nodes, t)
         /\ SlabGet(tasks.nodes, t).awake
         /\ Count(tasks.next, t) = 1
  /\ g.during \subseteq {tasks.next[i] : i \in 1..Len(tasks.next)}

\* the running task has woken itself during its resume and was resumed
\* before that in the same drain, also after a wake of its own
C12_Witness ==
  /\ pc = "poll"
  /\ g.late
  /\ cur \in g.made
  /\ g.fresh = {}
  /\ stats.poll = 0

\* C13: run / exec has returned only in states where the arena is empty
\* (every spawned task has reported Done and was removed) and the ready
\* list is empty.
C13_ReturnsWhenEmpty ==
  pc = "returned" =>
    /\ tasks.nodes.len = 0
    /\ SlabKeys(tasks.nodes) = {}
    /\ tasks.next = <<>>
    /\ g.completions = g.spawned

\* run has returned after it had to park: at some point the ready list
\* was empty while a task was still live
C13_Witness ==
  pc = "returned" /\ stats.poll >= 1 /\ g.spawned >= 2
  /\ g.completions = g.spawned

\* the tasks that the wake handles bound in the registrations refer to
BoundTo(regs) ==
  {SlabGet(regs, k).waker : k \in SlabKeys(regs)} \ {None}

\* the tasks that the kept duplicates refer to
HeldFor == {held[i] : i \in 1..Len(held)}

\* a resume is in progress (also when a panic ended the program within it:
\* the assertion on the reference count is made after the resume)
InResume ==
  pc = "poll" \/ (pc = "panic" /\ g.fault # "refcount assert")

\* the number of outstanding wake handles of task t: kept duplicates,
\* handles bound in registrations, and the handle as_std_waker makes for
\* the resume in progress
Outstanding(t) ==
  Count(held, t)
  + Cardinality({k \in SlabKeys(reactor.registrations) :
                   SlabGet(reactor.registrations, k).waker = t})
  + (IF variant = "future" /\ InResume /\ cur = t THEN 1 ELSE 0)
  + (IF g.unwinding = t THEN 1 ELSE 0)

\* C14: every outstanding wake handle (kept duplicate or bound in a
\* registration) refers to a task that is live; no wake was delivered to a
\* vacant slot; a slot that a spawn would fill is referred to by no handle;
\* and the completion of the running task removes it only when no
\* duplicate of its handle is left outstanding, and faults otherwise,
\* leaving the task in place.
C14_NoDanglingWake ==
  /\ \A t \in HeldFor \cup BoundTo(reactor.registrations) :
       SlabContains(tasks.nodes, t)
  /\ g.fault # "invalid key"
  /\ \A f \in {Imm, Gen} :
       \E w \in {TasksAdd(World, f)} :
         w.ret.ok =>
           w.ret.key \notin HeldFor \cup BoundTo(reactor.registrations)
  /\ (pc = "poll" /\ SlabContains(tasks.nodes, cur)) =>
       \E w \in {EndResume(World, cur, TRUE)} :
         IF cur \in HeldFor
         THEN w.fault = "refcount assert" /\ SlabContains(w.tasks.nodes, cur)
         ELSE /\ w.fault = "none"
              /\ ~SlabContains(w.tasks.nodes, cur)
              /\ cur \notin BoundTo(w.reactor.registrations)

\* a task reported Done while a duplicate of its handle was kept: the
\* program panicked and the task is still in the arena
C14_Witness ==
  /\ pc = "panic"
  /\ g.fault = "refcount assert"
  /\ held # <<>>
  /\ held[1] = cur
  /\ SlabContains(tasks.nodes, cur)

\* C15: for every live task the reference count is its baseline plus the
\* number of outstanding handles, and never below the baseline; a
\* duplication adds exactly 1, a release or a wake by value takes exactly 1
\* when a duplicate is outstanding and faults at the baseline without
\* decrementing, a wake by reference leaves the count as it is.
C15_RefAccounting ==
  \A t \in SlabKeys(tasks.nodes) :
    LET refs == SlabGet(tasks.nodes, t).refs
    IN /\ refs = Baseline + Outstanding(t)
       /\ refs >= Baseline
       /\ WakerClone(World, t) =
            SetTask(World, t, [Task(World, t) EXCEPT !.refs = refs + 1])
       /\ Task(TasksWake(World, t), t).refs = refs
       /\ \E w \in {WakerDrop(World, t)} :
            IF refs > Baseline
            THEN w = SetTask(World, t, [Task(World, t) EXCEPT !.refs = refs - 1])
            ELSE w.fault = "refs" /\ w.tasks = tasks
       /\ \E w \in {WakerWake(World, t)} :
            IF refs > Baseline
            THEN w.fault = "none" /\ Task(w, t).refs = refs - 1
                 /\ Task(w, t).awake
            ELSE w.fault = "refs" /\ Task(w, t).refs = refs

\* a duplicate of the handle of a task is outstanding while another task
\* is being resumed
C15_Witness ==
  /\ pc = "poll"
  /\ held # <<>>
  /\ held[1] # cur
  /\ SlabContains(tasks.nodes, held[1])
  /\ SlabGet(tasks.nodes, held[1]).refs = Baseline + 1
  /\ g.resumes >= 2

\* C16: the registration table never holds more than registrations_max
\* entries and each entry has its item in the readiness source; in every
\* reachable state a register on a full table returns an error and
\* changes nothing (no registration, no item, register counter as it
\* was), and a register on a table with room adds one registration with
\* ready = false and no wake handle, and one item with its key and
\* interest, and counts one register.
C16_RegisterAtCapacity ==
  /\ reactor.registrations.len <= RegsMax
  /\ poll.items.len = reactor.registrations.len
  /\ g.fault = "register unwrap" => reactor.registrations.len = RegsMax
  /\ \A interest \in {READABLE, READABLE + WRITABLE} :
       \E w \in {ReactorRegister(World, interest)} :
         IF reactor.registrations.len = RegsMax
         THEN /\ ~w.ret.ok
              /\ w.reactor = reactor /\ w.poll = poll /\ w.stats = stats
              /\ w.tasks = tasks /\ w.fault = "none"
         ELSE /\ w.ret.ok
              /\ ~SlabContains(reactor.registrations, w.ret.key)
              /\ w.reactor.registrations =
                   SlabInsert(reactor.registrations,
                              [ready |-> FALSE, waker |-> None])
              /\ Reg(w, w.ret.key) = [ready |-> FALSE, waker |-> None]
              /\ w.poll.items = SlabInsert(poll.items, <<interest, w.ret.key>>)
              /\ w.stats = [stats EXCEPT !.register = @ + 1]
              /\ w.tasks = tasks /\ w.fault = "none"

\* a listener or an accepted stream was to be registered on a full table:
\* new() unwrapped the error
C16_Witness ==
  /\ pc = "panic"
  /\ g.fault = "register unwrap"
  /\ reactor.registrations.len = RegsMax
  /\ stats.register = RegsMax

\* the I/O object a continuation owns, and whether an operation on it is
\* pending
OwnedIo(f) ==
  IF f.kind \in {"gen", "listen"} THEN f.l
  ELSE IF f.kind = "conn" THEN f.s ELSE NoIo

IsPending(f) ==
  IF f.kind \in {"gen", "listen"} THEN f.acc
  ELSE IF f.kind = "conn" THEN f.pend ELSE FALSE

\* the registrations of the I/O objects that live continuations own
OwnedKeys ==
  {OwnedIo(SlabGet(tasks.nodes, t).fut).key : t \in SlabKeys(tasks.nodes)}
    \ {None}

\* C17: a wake handle is bound in a registration only for a pending
\* operation of the live task that owns the registration, so after the
\* drop of a pending operation (at its completion or before) no binding
\* refers to its task, and the reference the binding held is released;
\* the registrations and the items of the readiness source are those of
\* the I/O objects that live continuations own, so the drop of a stream or
\* listener removed both.  In every reachable state the drop of an owned
\* I/O object counts one unregister and removes its item and its
\* registration with the handle bound in it.
C17_DropReleasesBindings ==
  /\ \A k \in SlabKeys(reactor.registrations) :
       LET t == SlabGet(reactor.registrations, k).waker
       IN t # None =>
            /\ SlabContains(tasks.nodes, t)
            /\ IsPending(SlabGet(tasks.nodes, t).fut)
            /\ OwnedIo(SlabGet(tasks.nodes, t).fut).key = k
  /\ SlabKeys(reactor.registrations) = OwnedKeys
  /\ {SlabGet(poll.items, i)[2] : i \in SlabKeys(poll.items)} = OwnedKeys
  /\ g.dropped.task # None =>
       /\ g.dropped.task \notin BoundTo(reactor.registrations)
       /\ SlabContains(reactor.registrations, g.dropped.key) =>
            SlabGet(reactor.registrations, g.dropped.key).waker = None
       /\ SlabGet(tasks.nodes, g.dropped.task).refs
            = Baseline + Outstanding(g.dropped.task)
  /\ \A t \in SlabKeys(tasks.nodes) :
       LET io == OwnedIo(SlabGet(tasks.nodes, t).fut)
       IN io.key # None =>
            \E w \in {AsyncDrop(World, io)} :
              /\ ~SlabContains(w.reactor.registrations, io.key)
              /\ ~SlabContains(w.poll.items, io.index)
              /\ w.stats = [stats EXCEPT !.unregister = @ + 1]
              /\ t \notin BoundTo(w.reactor.registrations)
              /\ w.fault = "none"

\* a pending accept whose registration held the handle of the task was
\* dropped during the resume in progress
C17_Witness ==
  /\ pc = "poll"
  /\ g.dropped.task = cur
  /\ g.dropped.bound
  /\ ~CurFut.acc
  /\ reactor.registrations.len >= 1

\* C20: the number of items registered with the readiness source is the
\* number of register operations less the number of unregister
\* operations, and when the echo workload has returned from run no item
\* is registered (the assertion of Drop for Poll holds), no registration
\* is left, and unregister = register.
C20_AllUnregistered ==
  /\ poll.items.len = stats.register - stats.unregister
  /\ poll.items.len = Cardinality(SlabKeys(poll.items))
  /\ pc = "returned" =>
       /\ SlabKeys(poll.items) = {}
       /\ reactor.registrations.len = 0
       /\ stats.unregister = stats.register

\* the echo workload has returned after the listener and every accepted
\* stream were registered
C20_Witness ==
  /\ pc = "returned"
  /\ stats.register = CONNS_MAX + 1
  /\ poll.items.len = 0
  /\ g.acceptsOk = CONNS_MAX

\* C18 as claimed: every invocation of a wake handle after the scheduler
\* was destroyed ended in a fault.
C18_WakeAfterDestroyFaults == g.dead \in {"none", "fault"}

\* C18 as amended: with the Rc handles of the boxrc executor, an invocation
\* of a wake handle (wake by value, wake by reference) or its release
\* after the scheduler was destroyed, by the thread that had created it,
\* has no effect and raises no fault: the weak reference does not upgrade.
C18_WakeAfterDestroyNoOp ==
  /\ g.dead \in {"none", "noop"}
  /\ pc = "destroyed" =>
       \A i \in 1..Len(held) : \A op \in HandleOps :
         HandleOp(World, op, Alive, held[i], TRUE) = World

\* a kept duplicate was invoked after the executor had been dropped in the
\* unwinding of the panic of run
C18_Witness ==
  /\ pc = "destroyed"
  /\ g.dead = "noop"
  /\ g.fault = "refcount assert"
  /\ tasks.nodes.len = 0

Surfaced(now, raw, key) ==
  IF ~is_ready(World, key)
  THEN now.ret.st = "pending" /\ now.stats = stats
  ELSE IF raw.ret.wb
  THEN now.ret.st = "pending" /\ ~is_ready(now, key) /\ now.stats = raw.stats
  ELSE /\ now.ret.st = "ready" /\ is_ready(now, key)
       /\ now.stats.accept = raw.stats.accept
       /\ now.stats.read = raw.stats.read
       /\ now.stats.write = raw.stats.write

\* C21: in every reachable state of the echo workload, the read of a
\* receiving connection, the write of a sending connection and the accept
\* of the listener report Pending when the backend answers WouldBlock, with
\* the ready flag cleared, and complete only when the backend answers with
\* a result, which is the result they deliver; a completed read or write
\* never carries an empty WouldBlock result.
C21_WouldBlockSuspends ==
  \A t \in SlabKeys(tasks.nodes) :
    \E f \in {SlabGet(tasks.nodes, t).fut} :
      /\ (f.kind = "conn" /\ f.phase = "read") =>
           \E now \in {ReadPoll(World, t, f.s, SMALL_BUFSIZE - Len(f.buf))} :
           \E raw \in {FakeRead(World, f.s, SMALL_BUFSIZE - Len(f.buf))} :
             now.fault = "none" =>
               /\ Surfaced(now, raw, f.s.key)
               /\ now.ret.st = "ready" => now.ret.data = raw.ret.data
                                          /\ now.ret.data # <<>>
      /\ (f.kind = "conn" /\ f.phase = "write" /\ f.sent < Len(f.buf)) =>
           \E data \in {SubSeq(f.buf, f.sent + 1, Len(f.buf))} :
           \E now \in {WritePoll(World, t, f.s, data)} :
           \E raw \in {FakeWrite(World, f.s, data)} :
             now.fault = "none" =>
               /\ Surfaced(now, raw, f.s.key)
               /\ now.ret.st = "ready" => now.ret.data = raw.ret.data
                                          /\ now.ret.data # <<>>
      /\ (f.kind = "listen" /\ f.started) =>
           \E now \in {AcceptPoll(World, t, f.l)} :
           \E raw \in {FakeAccept(World, f.l)} :
             now.fault = "none" =>
               /\ Surfaced(now, raw, f.l.key)
               /\ now.ret.st = "ready" => now.ret.stream.key # None

\* a connection is suspended on a read that the stream answered with
\* WouldBlock, and another on a write
C21_Witness ==
  /\ pc = "loop"
  /\ \E t \in SlabKeys(tasks.nodes) :
       \E f \in {SlabGet(tasks.nodes, t).fut} :
         /\ f.kind = "conn" /\ f.phase = "read" /\ f.pend
         /\ f.s.calls = 1 /\ ~is_ready(World, f.s.key)
  /\ \E t \in SlabKeys(tasks.nodes) :
       \E f \in {SlabGet(tasks.nodes, t).fut} :
         /\ f.kind = "conn" /\ f.phase = "write" /\ f.pend
         /\ ~is_ready(World, f.s.key)

\* a wake of a live task t sets its awake flag and links it in at the back
\* of the ready list when it was not awake, and changes nothing else
WakeOnlyEnqueues ==
  \A t \in SlabKeys(tasks.nodes) :
    \E old \in {SlabGet(tasks.nodes, t)} :
    \E w \in {TasksWake(World, t)} :
      /\ w.fault = "none"
      /\ w.tasks.nodes = SlabSet(tasks.nodes, t, [old EXCEPT !.awake = TRUE])
      /\ w.tasks.next = IF old.awake THEN tasks.next
                        ELSE ListPushBack(tasks.next, t)
      /\ w.reactor = reactor /\ w.poll = poll /\ w.stats = stats

\* the poll of the reactor, made by the scheduler between two drains,
\* leaves every continuation as it is and in the arena: it only sets awake
\* flags, releases the handles it invokes and extends the ready list
PollOnlyEnqueues ==
  (pc = "loop" /\ tasks.next = <<>>) =>
    \E w \in {ReactorPoll(World)} :
      /\ w.fault = "none"
      /\ SlabKeys(w.tasks.nodes) = SlabKeys(tasks.nodes)
      /\ \A t \in SlabKeys(tasks.nodes) :
           /\ Task(w, t).fut = SlabGet(tasks.nodes, t).fut
           /\ Task(w, t).awake = (t \in BoundTo(reactor.registrations))
           /\ Count(w.tasks.next, t)
                = IF t \in BoundTo(reactor.registrations) THEN 1 ELSE 0
      /\ BoundTo(w.reactor.registrations) = {}

\* a step changes the state of a continuation, spawns or completes a task
\* only within a resume, a resume starts only when the scheduler takes the
\* head of the ready list, and no resume starts within a resume
ResumeOnlyByDrain ==
  /\ g'.resumes # g.resumes =>
       /\ pc = "loop" /\ tasks.next # <<>>
       /\ g'.resumes = g.resumes + 1
       /\ pc' = "poll" => cur' = ListHead(tasks.next)
  /\ (pc' = "poll" /\ pc # "poll") => g'.resumes = g.resumes + 1
  /\ (pc = "poll" /\ pc' = "poll") => cur' = cur
  /\ pc # "init" =>
       \A t \in SlabKeys(tasks.nodes) :
         (\/ ~SlabContains(tasks'.nodes, t)
          \/ SlabGet(tasks'.nodes, t).fut # SlabGet(tasks.nodes, t).fut)
           => pc = "poll" /\ cur = t
  /\ pc \notin {"init", "poll"} => SlabKeys(tasks'.nodes) = SlabKeys(tasks.nodes)

\* C22: a wake, from a running continuation or from the poll of the
\* reactor, only sets the awake flag and enqueues the task and resumes
\* nothing; continuations are resumed only by the drain loop, one at a
\* time, never within another resume or within the poll of the reactor.
C22_WakeNeverResumes ==
  /\ []WakeOnlyEnqueues
  /\ []PollOnlyEnqueues
  /\ [][ResumeOnlyByDrain]_vars

\* a task that the poll of the reactor woke is being resumed and has woken
\* itself within this resume: it is on the ready list while it runs
C22_Witness ==
  /\ pc = "poll"
  /\ stats.poll >= 1
  /\ g.served
  /\ cur \in g.made
  /\ Count(tasks.next, cur) = 1
  /\ SlabGet(tasks.nodes, cur).awake

\* C23: whenever a continuation is being resumed, its report of Done ends
\* in the assertion failure, with the task still in the arena, if a
\* duplicate of its wake handle is outstanding, that is if its reference
\* count after the resume differs from the baseline (1 for the embedded
\* and the Rc / Arc handle, 0 for the counter of the scheduler); at the
\* baseline the task leaves the arena and the ready list and every other
\* task stays as it is.  No other fault ends a run of continuations that
\* keep duplicates, and without a fault the arena holds the tasks spawned
\* less the tasks that reported Done.
C23_DoneAtBaselineOnly ==
  /\ (pc = "poll" /\ SlabContains(tasks.nodes, cur)) =>
       \E w \in {EndResume(World, cur, TRUE)} :
       \E after \in {SlabGet(tasks.nodes, cur).refs
                       - (IF variant = "future" THEN 1 ELSE 0)} :
         IF after # (IF variant = "future" THEN 0 ELSE 1)
         THEN /\ w.fault = "refcount assert"
              /\ SlabKeys(w.tasks.nodes) = SlabKeys(tasks.nodes)
              /\ Task(w, cur).refs = after
              /\ Count(held, cur) = after - (IF variant = "future" THEN 0 ELSE 1)
         ELSE /\ w.fault = "none"
              /\ Count(held, cur) = 0
              /\ w.tasks.nodes = SlabRemove(tasks.nodes, cur)
              /\ w.tasks.next = ListRemove(tasks.next, cur)
              /\ Count(w.tasks.next, cur) = 0
  /\ g.fault \in {"none", "refcount assert"}
  /\ g.fault = "refcount assert" =>
       /\ pc = "panic"
       /\ SlabContains(tasks.nodes, cur)
       /\ SlabGet(tasks.nodes, cur).refs # (IF variant = "future" THEN 0 ELSE 1)
  /\ g.fault = "none" =>
       /\ Cardinality(SlabKeys(tasks.nodes)) = g.spawned - g.completions
       /\ \A i \in 1..Len(tasks.next) : SlabContains(tasks.nodes, tasks.next[i])

\* a task of the scheduler that counts the references itself reported Done
\* after it woke itself, while one duplicate of its handle was kept: the
\* count is 1 where 0 is asserted, the program panicked, and the task is
\* still in the arena and on the ready list
C23_Witness ==
  /\ variant = "future"
  /\ pc = "panic"
  /\ g.fault = "refcount assert"
  /\ SlabContains(tasks.nodes, cur)
  /\ SlabGet(tasks.nodes, cur).refs = 1
  /\ Count(held, cur) = 1
  /\ Count(tasks.next, cur) = 1

\* a live task is on the ready list, once, exactly when its awake flag is
\* set
AwakeIffListed ==
  /\ \A t \in SlabKeys(tasks.nodes) :
       Count(tasks.next, t) = IF SlabGet(tasks.nodes, t).awake THEN 1 ELSE 0
  /\ \A i \in 1..Len(tasks.next) : SlabContains(tasks.nodes, tasks.next[i])

\* the end of a resume with Pending leaves the task in the arena, its awake
\* flag and the ready list as they are; the awake flag of a live task is
\* set only by a wake (a handle invoked within a resume, or the poll of the
\* reactor for a task whose handle is bound); and the scheduler resumes
\* only a task whose awake flag is set
SuspendedUntilWoken ==
  /\ (pc = "poll" /\ pc' = "loop" /\ SlabContains(tasks'.nodes, cur)) =>
       /\ SlabGet(tasks'.nodes, cur).awake = SlabGet(tasks.nodes, cur).awake
       /\ tasks'.next = tasks.next
       /\ SlabKeys(tasks'.nodes) = SlabKeys(tasks.nodes)
  /\ \A t \in SlabKeys(tasks.nodes) \cap SlabKeys(tasks'.nodes) :
       (~SlabGet(tasks.nodes, t).awake /\ SlabGet(tasks'.nodes, t).awake) =>
         \/ pc = "poll" /\ pc' = "poll"
         \/ /\ pc = "loop" /\ stats'.poll = stats.poll + 1
            /\ t \in BoundTo(reactor.registrations)
  /\ (pc = "loop" /\ pc' = "poll") =>
       /\ SlabGet(tasks.nodes, cur').awake
       /\ cur' \in g.credit
       /\ ~SlabGet(tasks'.nodes, cur').awake

\* C24: a continuation that reports Suspended stays in the arena with its
\* awake flag clear and off the ready list unless a wake was invoked on
\* its handle, and it is resumed again only after such a wake; a suspended
\* task that is never woken is never resumed.
C24_SuspendedNotRequeued ==
  /\ []AwakeIffListed
  /\ [][SuspendedUntilWoken]_vars

\* a task that suspended without binding its handle anywhere was resumed
\* once; the reactor was polled twice since and the task is still
\* suspended, off the ready list
C24_Witness ==
  /\ pc = "loop"
  /\ tasks.next = <<>>
  /\ g.spawned = 1 /\ g.resumes = 1
  /\ stats.poll = 2
  /\ \E t \in SlabKeys(tasks.nodes) :
       /\ ~SlabGet(tasks.nodes, t).awake
       /\ t \notin BoundTo(reactor.registrations)
       /\ t \notin g.credit

\* a step that polls the reactor is taken by the scheduler between two
\* drains (process_next has found the ready list empty, and is entered
\* again after the poll), with the arena not empty; it polls once and
\* resumes nothing
PollOnlyWhenIdle ==
  stats'.poll # stats.poll =>
    /\ pc = "loop"
    /\ tasks.next = <<>>
    /\ tasks.nodes.len # 0
    /\ stats'.poll = stats.poll + 1
    /\ pc' = "loop"
    /\ g'.resumes = g.resumes /\ g'.completions = g.completions
    /\ SlabKeys(tasks'.nodes) = SlabKeys(tasks.nodes)

\* once the arena is empty in the loop the run has no step but the return;
\* no poll was made since the last task completed
NoPollWhenDone ==
  /\ (pc = "loop" /\ tasks.nodes.len = 0) =>
       /\ tasks.next = <<>>
       /\ ~ENABLED Park
       /\ ENABLED Return
  /\ pc = "returned" =>
       /\ tasks.nodes.len = 0
       /\ g.completions = g.spawned
       /\ g.owed = {}

\* C25: the scheduler polls the reactor only with the ready list empty and
\* the arena not empty, once per turn of its loop (one poll between the
\* drain that found the list empty and the next drain), and never after
\* the last task has completed.
C25_PollOnlyWhenIdle ==
  /\ [][PollOnlyWhenIdle]_vars
  /\ []NoPollWhenDone

\* the second poll of a run has just woken a task: the ready list was
\* empty before it, and the next drain starts with the woken task
C25_Witness ==
  /\ pc = "loop"
  /\ stats.poll = 2
  /\ g.owed # {}
  /\ tasks.next # <<>>
  /\ \A i \in 1..Len(tasks.next) : tasks.next[i] \in g.owed

\* the effect of the loop of FakeReactor::poll on the events of the
\* registrations K: every registration of K is ready with no handle bound,
\* every other registration is as before, the tasks whose handle was bound
\* in K are awake and on the ready list once, with the reference of the
\* taken handle released, and no other task changes
OneShot(K) ==
  \E evs \in {SelectSeq(ItemEvents(poll.items, 0), LAMBDA e : e[1] \in K)} :
  \E w \in {DeliverEvents(World, evs)} :
    /\ w.fault = "none"
    /\ \A k \in SlabKeys(reactor.registrations) :
         Reg(w, k) = IF k \in K THEN [ready |-> TRUE, waker |-> None]
                     ELSE SlabGet(reactor.registrations, k)
    /\ SlabKeys(w.reactor.registrations) = SlabKeys(reactor.registrations)
    /\ \A t \in SlabKeys(tasks.nodes) :
         \E n \in {Cardinality({k \in K :
                      SlabGet(reactor.registrations, k).waker = t})} :
           /\ Task(w, t).refs = SlabGet(tasks.nodes, t).refs - n
           /\ Task(w, t).fut = SlabGet(tasks.nodes, t).fut
           /\ Task(w, t).awake = (SlabGet(tasks.nodes, t).awake \/ n > 0)
           /\ Count(w.tasks.next, t) = IF Task(w, t).awake THEN 1 ELSE 0
    \* a later poll, the handle not bound again: the flag is set, no wake
    /\ \A k \in K :
         \E w2 \in {DeliverEvents(set_ready(w, k, FALSE), evs)} :
           /\ w2.tasks = w.tasks
           /\ w2.reactor.registrations = w.reactor.registrations
           /\ w2.fault = "none"

\* C26: whenever the scheduler is about to poll, the delivery of the
\* events of any set of registrations sets their ready flags, invokes each
\* bound handle once and leaves those registrations unbound, leaves the
\* registrations without an event unchanged, and a second delivery wakes
\* nobody; after a poll of the reactor no handle is bound and every
\* registration is ready.
C26_PollOneShot ==
  /\ (pc = "loop" /\ tasks.next = <<>>) =>
       \A K \in SUBSET SlabKeys(reactor.registrations) : OneShot(K)
  /\ (pc = "loop" /\ tasks.next = <<>> /\ tasks.nodes.len # 0) =>
       \E w \in {ReactorPoll(World)} :
         /\ BoundTo(w.reactor.registrations) = {}
         /\ \A k \in SlabKeys(reactor.registrations) : Reg(w, k).ready
         /\ w.stats = [stats EXCEPT !.poll = @ + 1]

\* the first poll took the handle bound for a pending accept and woke the
\* task; the task gave the accept up and suspended without binding a
\* handle; the second poll reported the registration again, set its flag
\* and woke nobody
C26_Witness ==
  /\ pc = "loop"
  /\ stats.poll = 2
  /\ tasks.next = <<>>
  /\ g.resumes = 2
  /\ g.owed = {}
  /\ \E k \in SlabKeys(reactor.registrations) :
       /\ k \in g.lastPoll.reported
       /\ SlabGet(reactor.registrations, k) = [ready |-> TRUE, waker |-> None]
  /\ \E t \in SlabKeys(tasks.nodes) :
       /\ ~SlabGet(tasks.nodes, t).awake
       /\ SlabGet(tasks.nodes, t).fut.kind = "gen"
       /\ SlabGet(tasks.nodes, t).fut.l.key # None

\* C27: in every state of the echo workload, a task suspended on a read,
\* write or accept (the operation is pending and the task is not the one
\* being resumed) has its registration's ready flag clear and its handle
\* bound there, unless a poll of the reactor has reported the registration
\* since: then the flag is set, the handle was taken and the task is awake
\* on the ready list.  So an attempt that met WouldBlock with the flag set
\* cleared the flag before the task suspended.
C27_EdgeRearmed ==
  \A t \in SlabKeys(tasks.nodes) \ {cur} :
    \E f \in {SlabGet(tasks.nodes, t).fut} :
      IsPending(f) =>
        \E r \in {SlabGet(reactor.registrations, OwnedIo(f).key)} :
          /\ OwnedIo(f).calls % 2 = 1 \/ OwnedIo(f).calls = 0
          /\ IF r.ready
             THEN /\ r.waker = None
                  /\ SlabGet(tasks.nodes, t).awake
                  /\ OwnedIo(f).key \in g.lastPoll.reported
                  /\ stats.poll >= 1
             ELSE /\ r.waker = t
                  /\ ~SlabGet(tasks.nodes, t).awake

\* the listener was woken by a poll, accepted a connection, attempted the
\* next accept with the flag still set and met WouldBlock again: it is
\* suspended with the flag cleared and its handle bound
C27_Witness ==
  /\ pc = "loop"
  /\ stats.poll >= 1
  /\ \E t \in SlabKeys(tasks.nodes) :
       \E f \in {SlabGet(tasks.nodes, t).fut} :
         /\ f.kind = "listen" /\ f.acc /\ f.i >= 1
         /\ f.l.calls = 3
         /\ ~SlabGet(tasks.nodes, t).awake
         /\ SlabGet(reactor.registrations, f.l.key)
              = [ready |-> FALSE, waker |-> t]

\* C28: whenever a task t is being resumed, binding its handle in a
\* registration where a handle of t is bound changes nothing (the
\* registration stays bound to t, the count of t is as before: the
\* duplicate made for the binding replaces the one that is released), and
\* for every registration binding twice or three times gives what binding
\* once gives: the registration bound to t, the count of t one higher
\* unless it was bound to t, the count of the task whose handle was
\* replaced one lower.  After a rebind made by a resumed task the counts
\* of the tasks with a bound handle are the baseline plus the outstanding
\* handles.
C28_RebindIdempotent ==
  /\ (pc = "poll" /\ SlabContains(tasks.nodes, cur)) =>
       \A k \in SlabKeys(reactor.registrations) :
         \E old \in {SlabGet(reactor.registrations, k).waker} :
         \E w \in {bind_waker(World, k, cur)} :
         \E w2 \in {bind_waker(w, k, cur)} :
           /\ w.fault = "none"
           /\ w2 = w
           /\ bind_waker(w2, k, cur) = w
           /\ Reg(w, k) = [SlabGet(reactor.registrations, k) EXCEPT
                             !.waker = cur]
           /\ old = cur => w = World
           /\ old # cur =>
                /\ Task(w, cur).refs = SlabGet(tasks.nodes, cur).refs + 1
                /\ old # None =>
                     Task(w, old).refs = SlabGet(tasks.nodes, old).refs - 1
           /\ w.tasks.next = tasks.next /\ w.stats = stats /\ w.poll = poll
  /\ g.rebound =>
       \A t \in BoundTo(reactor.registrations) :
         SlabGet(tasks.nodes, t).refs = Baseline + Outstanding(t)

\* a task that woke itself and then suspended on an accept was resumed
\* with its handle still bound, and its next accept bound the handle
\* again: one handle is bound and the count is the baseline plus one
C28_Witness ==
  /\ pc = "loop"
  /\ g.rebound
  /\ g.fault = "none"
  /\ \E t \in SlabKeys(tasks.nodes) :
       \E f \in {SlabGet(tasks.nodes, t).fut} :
         /\ f.kind = "gen" /\ f.acc
         /\ SlabGet(reactor.registrations, f.l.key).waker = t
         /\ SlabGet(tasks.nodes, t).refs = Baseline + 1

\* a step removes a task from the arena only when that task is the one
\* being resumed and its resume ends with Done; every other live task
\* keeps its key, and its continuation is as it was
ArenaStable ==
  /\ \A t \in SlabKeys(tasks.nodes) :
       IF ~SlabContains(tasks'.nodes, t)
       THEN /\ pc = "poll" /\ cur = t
            /\ pc' = "loop"
            /\ g'.completions = g.completions + 1
            /\ SlabGet(tasks.nodes, t).refs
                 - (IF variant = "future" THEN 1 ELSE 0)
                 - Cardinality({k \in SlabKeys(reactor.registrations) :
                      SlabGet(reactor.registrations, k).waker = t})
                 = Baseline
       ELSE (pc = "poll" /\ cur = t)
            \/ SlabGet(tasks'.nodes, t).fut = SlabGet(tasks.nodes, t).fut
  /\ tasks'.nodes.cap = tasks.nodes.cap

\* no spawn, wake or poll of the reactor, and no completion of the running
\* task, changes the key or the continuation of another live task, and
\* the arena never grows past the capacity it was allocated with
OthersUntouched ==
  /\ Len(tasks.nodes.entries) <= tasks.nodes.cap
  /\ tasks.nodes.len = Cardinality(SlabKeys(tasks.nodes))
  /\ \A t \in SlabKeys(tasks.nodes) :
       /\ \A f \in {Imm, Gen} :
            \E w \in {TasksAdd(World, f)} :
              /\ Task(w, t) = SlabGet(tasks.nodes, t)
              /\ w.ret.ok => w.ret.key # t
       /\ \A u \in SlabKeys(tasks.nodes) \ {t} :
            /\ Task(TasksWake(World, u), t) = SlabGet(tasks.nodes, t)
            /\ (pc = "poll" /\ cur = u) =>
                 \E w \in {EndResume(World, u, TRUE)} :
                   /\ SlabContains(w.tasks.nodes, t)
                   /\ Task(w, t) = SlabGet(tasks.nodes, t)
       /\ (pc = "loop" /\ tasks.next = <<>>) =>
            \E w \in {ReactorPoll(World)} :
              /\ SlabContains(w.tasks.nodes, t)
              /\ Task(w, t).fut = SlabGet(tasks.nodes, t).fut

\* C29: a task leaves the arena only at the end of its own resume, with
\* Done; spawn, wake, the poll of the reactor and the removal of another
\* task leave every other live task under its key with its continuation
\* unchanged.
C29_OnlyOwnCompletionRemoves ==
  /\ [][ArenaStable]_vars
  /\ []OthersUntouched

\* the task under key 0 has completed and was removed while the task under
\* key 1 is live: it is still under key 1, and key 0 is the next to be
\* handed out
C29_Witness ==
  /\ pc = "loop"
  /\ g.completions >= 1
  /\ ~SlabContains(tasks.nodes, 0)
  /\ SlabContains(tasks.nodes, 1)
  /\ tasks.nodes.next = 0
  /\ SlabGet(tasks.nodes, 1).fut.kind = "gen"

\* a connection as a record [sending, buf, sent, calls]: the async
\* connection of task t, and the entry k of the connections of RunManual
ConnOf(nodes, t) ==
  [sending |-> SlabGet(nodes, t).fut.phase = "write",
   buf |-> SlabGet(nodes, t).fut.buf,
   sent |-> SlabGet(nodes, t).fut.sent,
   calls |-> SlabGet(nodes, t).fut.s.calls]

ManConnOf(conns, k) ==
  [sending |-> SlabGet(conns, k).state = "SendingResponse",
   buf |-> SlabGet(conns, k).buf,
   sent |-> SlabGet(conns, k).sent,
   calls |-> SlabGet(conns, k).stream.calls]

\* a connection is receiving until its buffer holds the newline and
\* sending from then on; while it receives nothing was sent
ConnShape(c) ==
  /\ c.sending = Contains(c.buf, NEWLINE)
  /\ ~c.sending => c.sent = 0
  /\ c.sent <= Len(c.buf)

\* one step of a connection from c to d: never back to receiving; bytes
\* are read only while receiving and written only while sending; it
\* starts sending with the read that delivered the newline
ConnStep(c, d) ==
  /\ c.sending => d.sending /\ d.buf = c.buf
  /\ d.buf # c.buf => ~c.sending /\ d.sent = 0
  /\ d.sent # c.sent => d.sending /\ d.sent > c.sent
  /\ (~c.sending /\ d.sending) => d.buf # c.buf /\ Contains(d.buf, NEWLINE)
  /\ d.calls >= c.calls

\* a connection ends having written all it read
ConnEnd(c) == c.sending /\ c.sent = Len(c.buf) /\ c.sent > 0

Conns(nodes) ==
  {t \in SlabKeys(nodes) : SlabGet(nodes, t).fut.kind = "conn"}

ConnProgress ==
  /\ \A t \in Conns(tasks.nodes) :
       IF SlabContains(tasks'.nodes, t)
       THEN /\ ConnStep(ConnOf(tasks.nodes, t), ConnOf(tasks'.nodes, t))
            /\ ConnOf(tasks'.nodes, t) # ConnOf(tasks.nodes, t) =>
                 pc = "poll" /\ cur = t
       ELSE pc = "poll" /\ cur = t /\ ConnEnd(ConnOf(tasks.nodes, t))
  /\ stats'.read # stats.read =>
       cur \in Conns(tasks.nodes) /\ ~ConnOf(tasks.nodes, cur).sending
  /\ stats'.write # stats.write =>
       cur \in Conns(tasks.nodes) /\ ConnOf(tasks.nodes, cur).sending
  /\ \A k \in SlabKeys(man.conns) :
       IF SlabContains(man'.conns, k)
       THEN ConnStep(ManConnOf(man.conns, k), ManConnOf(man'.conns, k))
       ELSE /\ k = ListHead(man.needs_process)
            /\ \E r \in {ConnProcess(ManWorld(man), SlabGet(man.conns, k))} :
                 /\ r.done
                 /\ ConnEnd([ManConnOf(man.conns, k) EXCEPT
                               !.sending = r.c.state = "SendingResponse",
                               !.buf = r.c.buf, !.sent = r.c.sent])
                 /\ ConnStep(ManConnOf(man.conns, k),
                             [ManConnOf(man.conns, k) EXCEPT
                                !.sending = r.c.state = "SendingResponse",
                                !.buf = r.c.buf, !.sent = r.c.sent,
                                !.calls = r.c.stream.calls])

ConnShapes ==
  /\ \A t \in Conns(tasks.nodes) :
       /\ ConnShape(ConnOf(tasks.nodes, t))
       /\ ConnEnd(ConnOf(tasks.nodes, t)) => pc = "poll" /\ cur = t
  /\ \A k \in SlabKeys(man.conns) :
       /\ ConnShape(ManConnOf(man.conns, k))
       /\ ~ConnEnd(ManConnOf(man.conns, k))

\* C30: every connection, of the async workload and of the hand-written
\* loop, goes from receiving to sending and never back: it reads only
\* while receiving and writes only while sending, it starts sending with
\* the read that delivered the newline, and it completes exactly when the
\* bytes written have reached the bytes read.
C30_ReceiveThenSend ==
  /\ [][ConnProgress]_vars
  /\ []ConnShapes

\* an async connection has read the line and is suspended on its first
\* write, and a connection of the hand-written loop has read the line and
\* met WouldBlock on its first write
C30_Witness ==
  /\ pc = "loop"
  /\ \E t \in Conns(tasks.nodes) :
       /\ ConnOf(tasks.nodes, t)
            = [sending |-> TRUE, buf |-> LINE, sent |-> 0, calls |-> 3]
       /\ SlabGet(tasks.nodes, t).fut.pend
  /\ \E k \in SlabKeys(man.conns) :
       /\ ManConnOf(man.conns, k)
            = [sending |-> TRUE, buf |-> LINE, sent |-> 0, calls |-> 3]
       /\ ~SlabGet(man.conns, k).can_write

\* C31: between resumes (no continuation executing: before run, between
\* two steps of the run loop, after run returned) a live task's awake flag
\* is set if and only if the task is on the ready list; and while a task is
\* being resumed its awake flag is set if and only if a wake made it ready
\* again during this resume, in which case it is on the ready list again.
C31_AwakeIffReady ==
  /\ pc \in {"init", "loop", "returned"} =>
       \A t \in SlabKeys(tasks.nodes) :
         SlabGet(tasks.nodes, t).awake <=> Count(tasks.next, t) > 0
  /\ (pc = "poll" /\ SlabContains(tasks.nodes, cur)) =>
       /\ SlabGet(tasks.nodes, cur).awake <=> cur \in g.made
       /\ SlabGet(tasks.nodes, cur).awake <=> Count(tasks.next, cur) > 0

\* the task being resumed has woken itself: it is awake and listed again,
\* while another live task that suspended earlier is neither
C31_Witness ==
  /\ pc = "poll"
  /\ SlabContains(tasks.nodes, cur)
  /\ SlabGet(tasks.nodes, cur).awake
  /\ cur \in g.made
  /\ Count(tasks.next, cur) = 1
  /\ \E t \in SlabKeys(tasks.nodes) \ {cur} :
       ~SlabGet(tasks.nodes, t).awake /\ Count(tasks.next, t) = 0

\* C32: the ready list holds only identities of live tasks, in every state:
\* a task that woke itself in the resume in which it reports Done is off
\* the ready list once it is removed from the arena; the task being resumed
\* is live (no continuation is resumed after it reported Done), and no
\* dequeue has found a vacant slot.
C32_ReadyListLive ==
  /\ \A i \in 1..Len(tasks.next) : SlabContains(tasks.nodes, tasks.next[i])
  /\ pc = "poll" => SlabContains(tasks.nodes, cur)
  /\ g.fault # "invalid key"
  /\ g.selfDone => \A t \in SlabKeys(tasks.nodes) :
                     SlabGet(tasks.nodes, t).awake <=> Count(tasks.next, t) = 1

\* a task woke itself and then reported Done in the same resume: it was
\* removed, and the ready list holds the other, live, task only
C32_Witness ==
  /\ pc = "loop"
  /\ g.selfDone
  /\ g.completions = 1
  /\ tasks.nodes.len = 1
  /\ Len(tasks.next) = 1
  /\ SlabContains(tasks.nodes, tasks.next[1])

\* C33: in the echo workload, in every state in which the run loop polls
\* the reactor (the ready list is empty and the arena is not), every live
\* task has its wake handle bound in exactly one registration, and that
\* registration has an item in the readiness source; and every step that
\* polls the reactor leaves every live task on the ready list, once, with
\* its awake flag set, so the ready list is not empty after a poll and no
\* two polls follow each other without a resume in between.
C33_NoLostWakeup ==
  /\ [](\/ ~(pc = "loop" /\ tasks.next = <<>> /\ tasks.nodes.len # 0)
        \/ \A t \in SlabKeys(tasks.nodes) :
             /\ ~SlabGet(tasks.nodes, t).awake
             /\ Cardinality({k \in SlabKeys(reactor.registrations) :
                   SlabGet(reactor.registrations, k).waker = t}) = 1
             /\ \A k \in SlabKeys(reactor.registrations) :
                  SlabGet(reactor.registrations, k).waker = t =>
                    \E i \in SlabKeys(poll.items) :
                      SlabGet(poll.items, i)[2] = k)
  /\ [][stats'.poll # stats.poll =>
          /\ stats'.poll = stats.poll + 1
          /\ pc = "loop" /\ pc' = "loop"
          /\ tasks.next = <<>>
          /\ tasks'.next # <<>>
          /\ SlabKeys(tasks'.nodes) = SlabKeys(tasks.nodes)
          /\ \A t \in SlabKeys(tasks'.nodes) :
               /\ SlabGet(tasks'.nodes, t).awake
               /\ Count(tasks'.next, t) = 1]_vars

\* the reactor was just polled with the listener and a connection both
\* suspended: both are on the ready list and no handle is bound any more
C33_Witness ==
  /\ pc = "loop"
  /\ stats.poll >= 2
  /\ tasks.nodes.len >= 2
  /\ Len(tasks.next) = tasks.nodes.len
  /\ \A t \in SlabKeys(tasks.nodes) : Count(tasks.next, t) = 1
  /\ \A k \in SlabKeys(reactor.registrations) :
       /\ SlabGet(reactor.registrations, k).waker = None
       /\ SlabGet(reactor.registrations, k).ready

\* C34: in the echo workload on an executor and a reactor of capacity
\* CONNS_MAX + 1, the arena never holds more than CONNS_MAX + 1 tasks and
\* the reactor never more than CONNS_MAX + 1 registrations (no more than
\* that many are ever created), every spawn succeeded, and the program has
\* not faulted: no unwrap of a spawn or of a register failed.
C34_CapacitySuffices ==
  /\ tasks.nodes.len <= CONNS_MAX + 1
  /\ reactor.registrations.len <= CONNS_MAX + 1
  /\ tasks.nodes.len = Cardinality(SlabKeys(tasks.nodes))
  /\ reactor.registrations.len =
       Cardinality(SlabKeys(reactor.registrations))
  /\ g.spawned <= CONNS_MAX + 1
  /\ stats.register <= CONNS_MAX + 1
  /\ g.lastSpawn # "err"
  /\ g.fault = "none"
  /\ pc # "panic"

\* the last of the CONNS_MAX connections has just been accepted and
\* spawned, while three connections accepted before it are still live
C34_Witness ==
  /\ pc = "poll"
  /\ g.spawned = CONNS_MAX + 1
  /\ stats.register = CONNS_MAX + 1
  /\ g.lastSpawn = "ok"
  /\ tasks.nodes.len = 4
  /\ reactor.registrations.len = 4

\* C35: in every state in which a continuation is being resumed and owns
\* an object whose registration has its ready flag clear, an accept, a
\* read or a write on that object polled now reports Pending and attempts
\* no I/O: the counters of accept, read and write and the object's own
\* attempt counter are as before, the ready flag is still clear, the
\* readiness source is untouched; and the handle of the task is bound to
\* the registration afterwards.
C35_NotReadySuspends ==
  (/\ pc = "poll"
   /\ SlabContains(tasks.nodes, cur)
   /\ CurFut.kind = "gen"
   /\ CurFut.l.key # None
   /\ ~SlabGet(reactor.registrations, CurFut.l.key).ready) =>
    LET io == CurFut.l
        Suspends(x) ==
          /\ x.fault = "none"
          /\ x.ret.st = "pending"
          /\ x.ret.io = io
          /\ x.stats = stats
          /\ x.poll = poll
          /\ x.tasks.next = tasks.next
          /\ SlabKeys(x.reactor.registrations) =
               SlabKeys(reactor.registrations)
          /\ ~Reg(x, io.key).ready
          /\ Reg(x, io.key).waker = cur
          /\ \A k \in SlabKeys(reactor.registrations) \ {io.key} :
               Reg(x, k) = SlabGet(reactor.registrations, k)
    IN /\ Suspends(AcceptPoll(World, cur, io))
       /\ Suspends(ReadPoll(World, cur, io, SMALL_BUFSIZE))
       /\ Suspends(WritePoll(World, cur, io, LINE))

\* a task that had woken itself awaited accept, which would block, and was
\* resumed again with the ready flag still clear: the accept was polled a
\* second time (its handle was bound already) and the task suspended again
\* after a single attempt on the listener
C35_Witness ==
  /\ pc = "loop"
  /\ g.rebound
  /\ g.resumes = 2
  /\ stats.accept = 1
  /\ stats.poll = 0
  /\ \E t \in SlabKeys(tasks.nodes) :
       /\ SlabGet(tasks.nodes, t).fut.kind = "gen"
       /\ SlabGet(tasks.nodes, t).fut.acc
       /\ SlabGet(tasks.nodes, t).fut.l.calls = 1
       /\ ~SlabGet(reactor.registrations,
                   SlabGet(tasks.nodes, t).fut.l.key).ready
       /\ SlabGet(reactor.registrations,
                  SlabGet(tasks.nodes, t).fut.l.key).waker = t

\* C36: registering a new listener or stream leaves its registration with
\* the ready flag set; an object that no attempt was made on yet is ready,
\* has no handle bound and is owned by a task that is awake or being
\* resumed (its owner has not suspended before the first attempt); and
\* whenever the run loop polls the reactor, every object of a live task
\* has had its first attempt: the first accept / read is issued in the
\* first resume of the owner, before a poll could report the object.
C36_ReadyAtCreation ==
  /\ \A interest \in {READABLE, READABLE + WRITABLE} :
       reactor.registrations.len < reactor.registrations.cap =>
         LET x == AsyncNew(World, interest)
         IN /\ x.fault = "none"
            /\ SlabContains(x.reactor.registrations, x.ret.io.key)
            /\ ~SlabContains(reactor.registrations, x.ret.io.key)
            /\ Reg(x, x.ret.io.key) = [ready |-> TRUE, waker |-> None]
            /\ x.ret.io.calls = 0
            /\ x.stats = [stats EXCEPT !.register = @ + 1]
  /\ \A t \in SlabKeys(tasks.nodes) :
       LET io == OwnedIo(SlabGet(tasks.nodes, t).fut)
       IN (io.key # None /\ io.calls = 0) =>
            /\ SlabGet(reactor.registrations, io.key).ready
            /\ SlabGet(reactor.registrations, io.key).waker = None
            /\ \/ SlabGet(tasks.nodes, t).awake
               \/ pc \in {"poll", "panic"} /\ t = cur
  /\ (pc = "loop" /\ tasks.next = <<>>) =>
       \A t \in SlabKeys(tasks.nodes) :
         /\ OwnedIo(SlabGet(tasks.nodes, t).fut).key # None
         /\ OwnedIo(SlabGet(tasks.nodes, t).fut).calls >= 1

\* the first connection has suspended at the end of its first resume: its
\* first read was attempted (and would block) although no poll has ever
\* reported its stream, the one poll so far having come before the stream
\* was registered
C36_Witness ==
  /\ pc = "loop"
  /\ stats.poll = 1
  /\ \E t \in SlabKeys(tasks.nodes) :
       /\ SlabGet(tasks.nodes, t).fut.kind = "conn"
       /\ ~SlabGet(tasks.nodes, t).awake
       /\ SlabGet(tasks.nodes, t).fut.s.calls = 1
       /\ SlabGet(tasks.nodes, t).fut.s.key \notin g.lastPoll.reported
       /\ SlabGet(reactor.registrations,
                  SlabGet(tasks.nodes, t).fut.s.key).waker = t

\* C37: a spawner whose data is None (before set_spawner, or after the
\* executor it was attached to was dropped) returns an error from spawn
\* and leaves arena and ready list as they are; once the executor is
\* dropped the data is None; while the data is set, spawn through the
\* spawner gives the result and the effect of spawn on the executor, an
\* error at capacity included.  Every spawn made through the spawner so
\* far failed without effect when unattached or dropped, and succeeded
\* with effect or failed without when attached.
C37_SpawnerDetached ==
  /\ pc = "destroyed" => spawner.data = None
  /\ \A f \in {Imm, Gen} :
       LET x == SpawnerSpawn(World, spawner, f)
       IN IF spawner.data = None
          THEN /\ ~x.ret.ok
               /\ x.tasks = tasks
               /\ x.fault = "none"
          ELSE /\ x = TasksAdd(World, f)
               /\ x.ret.ok <=> tasks.nodes.len < tasks.nodes.cap
               /\ x.ret.ok => /\ x.tasks.nodes.len = tasks.nodes.len + 1
                              /\ x.tasks.next = Append(tasks.next, x.ret.key)
               /\ ~x.ret.ok => x.tasks = tasks
  /\ \A s \in g.viaSpawner :
       /\ s[1] \in {"unset", "dropped"} => ~s[2] /\ s[3]
       /\ s[1] = "attached" => (s[2] <=> ~s[3])
  /\ pc # "destroyed" => tasks.nodes.len + g.completions = g.spawned

\* the spawner was used before set_spawner (error, no task), while
\* attached (a task was spawned, and ran), and after the executor was
\* dropped (error, no task)
C37_Witness ==
  /\ pc = "destroyed"
  /\ spawner.data = None
  /\ tasks.nodes.len = 0
  /\ g.completions >= 1
  /\ {<<"unset", FALSE, TRUE>>, <<"attached", TRUE, FALSE>>,
      <<"dropped", FALSE, TRUE>>} \subseteq g.viaSpawner

\* C38: in every state of the echo run, for a new object and for the
\* object of every live task, whatever the ready flag of its registration:
\* a read, a write or an accept attempted now counts one more attempt on
\* the object's single counter and one more read / write / accept in the
\* statistics, nothing else; it would block exactly when the attempt is
\* the 1st, 3rd, 5th, ... on the object and succeeds otherwise, a read with
\* the 12 bytes "hello world\n", a write with the whole buffer accepted;
\* and an attempt that would block is followed by one that succeeds, read
\* and write sharing the counter of the stream.
C38_OddAttemptsBlock ==
  \A io \in {NoIo} \cup {OwnedIo(SlabGet(tasks.nodes, t).fut) :
                          t \in SlabKeys(tasks.nodes)} :
    LET n == io.calls + 1
        r == FakeRead(World, io, SMALL_BUFSIZE)
        w == FakeWrite(World, io, LINE)
        a == FakeAccept(World, io)
        Counted(x, field) ==
          /\ x.fault = "none"
          /\ x.ret.io = [io EXCEPT !.calls = n]
          /\ x.ret.wb <=> n % 2 = 1
          /\ x.stats = [stats EXCEPT ![field] = @ + 1]
          /\ x.tasks = tasks /\ x.reactor = reactor /\ x.poll = poll
    IN /\ Counted(r, "read")
       /\ r.ret.data = IF n % 2 = 1 THEN <<>> ELSE LINE
       /\ Len(LINE) = 12 /\ LINE[12] = NEWLINE
       /\ Counted(w, "write")
       /\ w.ret.data = IF n % 2 = 1 THEN <<>> ELSE LINE
       /\ Counted(a, "accept")
       /\ r.ret.wb => /\ ~FakeWrite(r, r.ret.io, LINE).ret.wb
                      /\ ~FakeRead(r, r.ret.io, SMALL_BUFSIZE).ret.wb
       /\ ~w.ret.wb => /\ FakeRead(w, w.ret.io, SMALL_BUFSIZE).ret.wb
                       /\ FakeWrite(w, w.ret.io, LINE).ret.wb

\* a connection has made four attempts on its stream: a read that would
\* block, a read that delivered the line, a write that would block and a
\* write that took the whole line
C38_Witness ==
  /\ pc = "poll"
  /\ SlabContains(tasks.nodes, cur)
  /\ CurFut.kind = "conn"
  /\ CurFut.s.calls = 4
  /\ CurFut.rOk = 1 /\ CurFut.wOk = 1
  /\ CurFut.buf = LINE
  /\ CurFut.sent = Len(LINE)

\* C39: in every state of the echo run, a poll of the readiness source
\* made now counts one poll and changes nothing but the event list, which
\* it replaces (whatever the list held before, and again so when repeated)
\* by one event (key, interest) for each registered item and nothing else;
\* after the unregister of an item a poll reports the other items only;
\* and the unregister of an object without a poll index counts one
\* unregister and leaves the items as they are.
C39_PollReportsRegistered ==
  LET x == PollPoll(World)
      Pair(i) == <<SlabGet(poll.items, i)[2], SlabGet(poll.items, i)[1]>>
      Times(evs, e) == Cardinality({j \in 1..Len(evs) : evs[j] = e})
      none == PollUnregister(World, None)
  IN /\ x.stats = [stats EXCEPT !.poll = @ + 1]
     /\ x.poll = poll /\ x.tasks = tasks
     /\ x.reactor.registrations = reactor.registrations
     /\ Len(x.reactor.events) = poll.items.len
     /\ \A i \in SlabKeys(poll.items) : Times(x.reactor.events, Pair(i)) = 1
     /\ \A j \in 1..Len(x.reactor.events) :
          \E i \in SlabKeys(poll.items) : x.reactor.events[j] = Pair(i)
     /\ PollPoll(x).reactor.events = x.reactor.events
     /\ PollPoll([World EXCEPT !.reactor.events = <<<<0, READABLE>>>>])
          .reactor.events = x.reactor.events
     /\ \A i \in SlabKeys(poll.items) :
          LET u == PollUnregister(World, i)
              evs == PollPoll(u).reactor.events
          IN /\ u.stats = [stats EXCEPT !.unregister = @ + 1]
             /\ SlabKeys(u.poll.items) = SlabKeys(poll.items) \ {i}
             /\ \A k \in SlabKeys(u.poll.items) :
                  SlabGet(u.poll.items, k) = SlabGet(poll.items, k)
             /\ Len(evs) = poll.items.len - 1
             /\ Times(evs, Pair(i)) = 0
     /\ none.stats = [stats EXCEPT !.unregister = @ + 1]
     /\ none.poll = poll
     /\ none.reactor = reactor /\ none.tasks = tasks /\ none.fault = "none"

\* the reactor has just been polled after a stream was unregistered: the
\* items have a vacant slot, and the event list names the registered items,
\* one event each
C39_Witness ==
  /\ pc = "loop"
  /\ stats.poll >= 2
  /\ stats.unregister >= 1
  /\ poll.items.len >= 2
  /\ Len(poll.items.entries) > poll.items.len
  /\ Len(tasks.next) = tasks.nodes.len
  /\ reactor.events = ItemEvents(poll.items, 0)
  /\ Len(reactor.events) = poll.items.len

====
